---------------------------- MODULE Spec2Model ----------------------------
(***************************************************************************)
(* GitRefiny: the locator parser (validators.py), the TTL cache            *)
(* (cache.py), the repository analyzer (analyzer.py) and the analyze /     *)
(* generate endpoints (app.py).                                            *)
(*                                                                         *)
(* Python strings are sequences of one-character strings, so that strip,   *)
(* rstrip, split, lower, the regular expression and the ordering of        *)
(* sorted() are computed character by character.                           *)
(***************************************************************************)
EXTENDS Integers, Sequences, FiniteSets, TLC

VARIABLES
    url,        \* validators: the argument handed to validate_github_url
    vres,       \* validators: what validate_github_url did with it
    cache,      \* CacheManager.cache: key -> (result, expiry_time)
    now,        \* datetime.now(), in clock ticks
    last,       \* the cache operation that ran last, with what it returned
    hist,       \* per slot: the last cache_analysis and the evictions since
    file_tree,  \* analyzer: the tree listing handed to analyze_file_tree
    summary,    \* analyzer: the FileTreeSummary it returned
    pc,         \* app: where the request in progress stands
    req,        \* app: the request in progress (or the last one)
    frame,      \* app: repo_meta and file_tree of analyze_repository
    calls,      \* app: the calls the request has made, in order
    outcome,    \* app: the response of the request, None while it runs
    fin,        \* a function of the analyzer or generator on its own: its input
    fout        \* ... and what it returned, None before the call

urlVars == <<url, vres>>
cacheVars == <<cache, now, last, hist>>
treeVars == <<file_tree, summary>>
appVars == <<pc, req, frame, calls, outcome>>
factVars == <<fin, fout>>
vars == <<url, vres, cache, now, last, hist, file_tree, summary,
          pc, req, frame, calls, outcome, fin, fout>>

(***************************************************************************)
(* Characters.                                                             *)
(***************************************************************************)
LF == "\n"
TAB == "\t"

Digits == <<"0","1","2","3","4","5","6","7","8","9">>
UpperCase == <<"A","B","C","D","E","F","G","H","I","J","K","L","M",
               "N","O","P","Q","R","S","T","U","V","W","X","Y","Z">>
LowerCase == <<"a","b","c","d","e","f","g","h","i","j","k","l","m",
               "n","o","p","q","r","s","t","u","v","w","x","y","z">>

\* The characters of the model in code point order (the order of str < str).
AsciiOrder == <<TAB, LF, " ", "-", ".", "/">> \o Digits \o <<":">>
              \o UpperCase \o <<"_">> \o LowerCase

Range(s) == {s[i] : i \in DOMAIN s}

Char == Range(AsciiOrder)

Ord == [c \in Char |-> CHOOSE i \in DOMAIN AsciiOrder : AsciiOrder[i] = c]

\* str.strip() with no argument strips whitespace.
Whitespace == {" ", LF, TAB}

\* [a-zA-Z0-9_-] and [a-zA-Z0-9_.-] of the pattern at validators.py:36
OwnerClass == Range(LowerCase) \cup Range(UpperCase) \cup Range(Digits) \cup {"_", "-"}
RepoClass == OwnerClass \cup {"."}

(***************************************************************************)
(* String helpers (Python str methods).                                    *)
(***************************************************************************)
Drop(s, n) == SubSeq(s, n + 1, Len(s))
Take(s, n) == SubSeq(s, 1, n)
Front(s) == SubSeq(s, 1, Len(s) - 1)

StartsWith(s, p) == Len(p) <= Len(s) /\ Take(s, Len(p)) = p
EndsWith(s, p) == Len(p) <= Len(s) /\ Drop(s, Len(s) - Len(p)) = p

RECURSIVE LStripSet(_, _)
LStripSet(s, cs) ==
    IF s # <<>> /\ Head(s) \in cs THEN LStripSet(Tail(s), cs) ELSE s

RECURSIVE RStripSet(_, _)
RStripSet(s, cs) ==
    IF s # <<>> /\ s[Len(s)] \in cs THEN RStripSet(Front(s), cs) ELSE s

\* str.strip()
Strip(s) == RStripSet(LStripSet(s, Whitespace), Whitespace)

\* rstrip('/') taken to remove one trailing '/' only.
RStripOneSlash(s) == IF s # <<>> /\ s[Len(s)] = "/" THEN Front(s) ELSE s

\* str.rstrip('/')
RStripSlash(s) == RStripSet(s, {"/"})

\* str.lower() on the characters of the model
\* str.lower() on the letters A-Z, as a table
LowerOf ==
    [c \in Range(UpperCase) |-> LowerCase[CHOOSE i \in DOMAIN UpperCase : UpperCase[i] = c]]

ToLowerChar(c) == IF c \in DOMAIN LowerOf THEN LowerOf[c] ELSE c

StrLower(s) == [i \in DOMAIN s |-> ToLowerChar(s[i])]

\* The length of the longest prefix of s made of characters of cs.
RECURSIVE SpanLen(_, _)
SpanLen(s, cs) ==
    IF s # <<>> /\ Head(s) \in cs THEN 1 + SpanLen(Tail(s), cs) ELSE 0

(***************************************************************************)
(* validators.py                                                           *)
(***************************************************************************)
HTTP == <<"h","t","t","p">>
SCHEME_SEP == <<":","/","/">>
GITHUB_HOST == <<"g","i","t","h","u","b",".","c","o","m">>
DOT_GIT == <<".","g","i","t">>

\* An argument of validate_github_url: a str, as its characters, or
\* a value that is not a str (None, a number, a list).
Str(cs) == [isstr |-> TRUE, chars |-> cs]
NonStr == [isstr |-> FALSE, chars |-> <<>>]

ValidationError == [ok |-> FALSE, owner |-> <<>>, repo |-> <<>>]
Parsed(o, r) == [ok |-> TRUE, owner |-> o, repo |-> r]

\* '$' without re.MULTILINE matches at the end of the string and also just
\* before a line feed that is the string's last character: the part of the
\* subject the pattern has to cover.
DollarBody(s) == IF s # <<>> /\ s[Len(s)] = LF THEN {s, Front(s)} ELSE {s}

\* (?:https?://)? : the lengths of the prefixes the optional group can take.
SchemeLens(s) ==
    {0} \cup {n \in {Len(HTTP) + 3, Len(HTTP) + 4} :
                \/ n = Len(HTTP) + 3 /\ StartsWith(s, HTTP \o SCHEME_SEP)
                \/ n = Len(HTTP) + 4 /\ StartsWith(s, HTTP \o <<"s">> \o SCHEME_SEP)}

\* github\.com/([a-zA-Z0-9_-]+)/([a-zA-Z0-9_.-]+) against the whole of t:
\* the set of (owner, repo) group pairs (empty when t does not match).
HostPathGroups(t) ==
    IF ~StartsWith(t, GITHUB_HOST \o <<"/">>) THEN {}
    ELSE LET rest == Drop(t, Len(GITHUB_HOST) + 1)
             n == SpanLen(rest, OwnerClass)
             after == Drop(rest, n)
         IN IF n >= 1 /\ after # <<>> /\ Head(after) = "/"
               /\ Len(after) >= 2
               /\ SpanLen(Tail(after), RepoClass) = Len(after) - 1
            THEN {<<Take(rest, n), Tail(after)>>}
            ELSE {}

\* re.match(pattern, url).groups(), as a set: empty for no match.
ReMatchGroups(s) ==
    UNION {UNION {HostPathGroups(Drop(t, k)) : k \in SchemeLens(t)} : t \in DollarBody(s)}

\* validators.py:11-52. The argument is [isstr, chars]: a non-string is
\* isstr = FALSE.
validate_github_url(u) ==
    IF ~u.isstr \/ u.chars = <<>> THEN ValidationError
    ELSE LET s == RStripSlash(Strip(u.chars))
             m == ReMatchGroups(s)
         IN IF m = {} THEN ValidationError
            ELSE LET g == CHOOSE g \in m : TRUE
                     repo == IF EndsWith(g[2], DOT_GIT)
                             THEN Take(g[2], Len(g[2]) - Len(DOT_GIT))
                             ELSE g[2]
                 IN Parsed(g[1], repo)


(***************************************************************************)
(* cache.py                                                                *)
(***************************************************************************)
\* Optional[T]: None is the empty sequence, a value v is <<v>>.
None == <<>>
Some(v) == <<v>>

EmptyMap == [k \in {} |-> None]
MapPut(m, k, v) == [x \in DOMAIN m \cup {k} |-> IF x = k THEN v ELSE m[x]]
MapDel(m, ks) == [x \in DOMAIN m \ ks |-> m[x]]

\* CacheManager(ttl_seconds): the time-to-live, in clock ticks.
ttl == 2

\* hashlib.md5(...).hexdigest(): a digest, taken to be free of collisions.
Md5Hex(s) == <<"md5", s>>

\* _generate_key hashing the locator as given, letter case included.
generate_key_exact(repo_url) == Md5Hex(repo_url)

\* cache.py:21-31
generate_key(repo_url) == Md5Hex(StrLower(repo_url))

\* get_cached_analysis with the expiry test off by one (>= for >).
get_cached_analysis_ge(c, repo_url, t) ==
    LET key == Md5Hex(StrLower(repo_url))
    IN IF key \notin DOMAIN c THEN [cache |-> c, ret |-> None]
       ELSE IF t >= c[key].expiry_time
            THEN [cache |-> MapDel(c, {key}), ret |-> None]
            ELSE [cache |-> c, ret |-> Some(c[key].result)]

\* get_cached_analysis that reports an expired entry as a miss and leaves it
\* in the cache.
get_cached_analysis_keep(c, repo_url, t) ==
    LET key == Md5Hex(StrLower(repo_url))
    IN IF key \notin DOMAIN c \/ t > c[key].expiry_time
       THEN [cache |-> c, ret |-> None]
       ELSE [cache |-> c, ret |-> Some(c[key].result)]

\* cache.py:33-56: the cache afterwards and the value returned.
get_cached_analysis(c, repo_url, t) ==
    LET key == generate_key(repo_url)
    IN IF key \notin DOMAIN c THEN [cache |-> c, ret |-> None]
       ELSE IF t > c[key].expiry_time
            THEN [cache |-> MapDel(c, {key}), ret |-> None]
            ELSE [cache |-> c, ret |-> Some(c[key].result)]

\* cache_analysis that leaves an entry that has not expired in place.
cache_analysis_if_absent(c, repo_url, analysis, t) ==
    IF generate_key(repo_url) \in DOMAIN c /\ t <= c[generate_key(repo_url)].expiry_time
    THEN c
    ELSE MapPut(c, generate_key(repo_url), [result |-> analysis, expiry_time |-> t + ttl])

\* cache.py:58-68
cache_analysis(c, repo_url, analysis, t) ==
    MapPut(c, generate_key(repo_url), [result |-> analysis, expiry_time |-> t + ttl])

\* cache.py:70-79
invalidate_cache(c, repo_url) ==
    IF generate_key(repo_url) \in DOMAIN c THEN MapDel(c, {generate_key(repo_url)}) ELSE c

\* cache.py:81-83
clear_all(c) == EmptyMap

\* The sweep's test off by one: an entry at its expiry counts as expired.
expired_keys_ge(c, t) == {key \in DOMAIN c : t >= c[key].expiry_time}

\* cache.py:92-96: the keys the sweep collects.
expired_keys(c, t) == {key \in DOMAIN c : t > c[key].expiry_time}

\* cleanup_expired returning the number of entries left, not removed.
cleanup_expired_left(c, t) ==
    [cache |-> MapDel(c, expired_keys(c, t)),
     ret |-> Cardinality(DOMAIN c \ expired_keys(c, t))]

\* cache.py:85-101: the cache afterwards and the count returned.
cleanup_expired(c, t) ==
    [cache |-> MapDel(c, expired_keys(c, t)), ret |-> Cardinality(expired_keys(c, t))]

(***************************************************************************)
(* The CacheManager driven by any caller: stores, lookups, invalidations,  *)
(* sweeps and the passing of time, in any order.                           *)
(***************************************************************************)
MaxTime == 4
NumResults == 2

L_ab == GITHUB_HOST \o <<"/","a","/","b">>
L_Ab == GITHUB_HOST \o <<"/","A","/","b">>
L_ac == GITHUB_HOST \o <<"/","a","/","c">>
Locators == {L_ab, L_Ab, L_ac}
Results == 1..NumResults

NoOp == [op |-> "none"]

\* hist.stores: per key, the result and time of the last cache_analysis that
\* no invalidate_cache or clear_all has undone, with the number of times the
\* entry was since removed for being expired. hist.swept: cleanup_expired
\* ran and neither the clock nor a cache_analysis has moved since.
NoHist == [stores |-> EmptyMap, swept |-> FALSE]

CacheIdle == cache = EmptyMap /\ now = 0 /\ last = NoOp /\ hist = NoHist

UrlIdle == url = NonStr /\ vres = <<>>

NoReq == [endpoint |-> "none", seq |-> 0]
NoFrame == [repo_meta |-> None, file_tree |-> None]

AppIdle ==
    pc = "idle" /\ req = NoReq /\ frame = NoFrame /\ calls = <<>> /\ outcome = None

TreeIdle == file_tree = <<>> /\ summary = None

NoInput == [op |-> "none"]
FactIdle == fin = NoInput /\ fout = <<>>

CacheInit == CacheIdle /\ UrlIdle /\ TreeIdle /\ AppIdle /\ FactIdle

\* hist.stores after operation `op` removed the keys `gone` as expired.
Evicted(st, gone, op) ==
    [k \in DOMAIN st |-> IF k \in gone
                         THEN [st[k] EXCEPT !.evictions = @ + 1, !.by = op]
                         ELSE st[k]]

Tick ==
    /\ now < MaxTime
    /\ now' = now + 1
    /\ last' = [op |-> "tick"]
    /\ hist' = [hist EXCEPT !.swept = FALSE]
    /\ UNCHANGED <<cache, urlVars, treeVars, factVars, appVars>>

Store ==
    \E L \in Locators, R \in Results :
        /\ cache' = cache_analysis(cache, L, R, now)
        /\ last' = [op |-> "cache_analysis", url |-> L]
        /\ hist' = [stores |-> MapPut(hist.stores, generate_key(L),
                                      [result |-> R, at |-> now, evictions |-> 0,
                                       by |-> "none", locator |-> L,
                                       over |-> IF /\ generate_key(L) \in DOMAIN cache
                                                   /\ now <= cache[generate_key(L)].expiry_time
                                                THEN Some(cache[generate_key(L)].expiry_time)
                                                ELSE None]),
                    swept |-> FALSE]
        /\ UNCHANGED <<now, urlVars, treeVars, factVars, appVars>>

Lookup ==
    \E L \in Locators :
        LET r == get_cached_analysis(cache, L, now)
        IN /\ cache' = r.cache
           /\ last' = [op |-> "get_cached_analysis", url |-> L, ret |-> r.ret,
                       pre |-> cache]
           /\ hist' = [hist EXCEPT
                         !.stores = Evicted(@, DOMAIN cache \ DOMAIN r.cache,
                                            "get_cached_analysis")]
           /\ UNCHANGED <<now, urlVars, treeVars, factVars, appVars>>

Invalidate ==
    \E L \in Locators :
        /\ cache' = invalidate_cache(cache, L)
        /\ last' = [op |-> "invalidate_cache", url |-> L]
        /\ hist' = [hist EXCEPT !.stores = MapDel(@, {generate_key(L)})]
        /\ UNCHANGED <<now, urlVars, treeVars, factVars, appVars>>

ClearAll ==
    /\ cache' = clear_all(cache)
    /\ last' = [op |-> "clear_all"]
    /\ hist' = [hist EXCEPT !.stores = EmptyMap]
    /\ UNCHANGED <<now, urlVars, treeVars, factVars, appVars>>

Cleanup ==
    LET r == cleanup_expired(cache, now)
    IN /\ cache' = r.cache
       /\ last' = [op |-> "cleanup_expired", ret |-> r.ret, pre |-> cache,
                   again |-> hist.swept]
       /\ hist' = [stores |-> Evicted(hist.stores, expired_keys(cache, now),
                                       "cleanup_expired"),
                   swept |-> TRUE]
       /\ UNCHANGED <<now, urlVars, treeVars, factVars, appVars>>

CacheNext == Tick \/ Store \/ Lookup \/ Invalidate \/ ClearAll \/ Cleanup

SpecCache == CacheInit /\ [][CacheNext]_vars

(***************************************************************************)
(* The cache contract (checked under SpecCache).                           *)
(***************************************************************************)
IsLookup == last.op = "get_cached_analysis"
IsSweep == last.op = "cleanup_expired"
LastKey == generate_key(last.url)
Live(c, k, t) == k \in DOMAIN c /\ t <= c[k].expiry_time

\* C2: a lookup of L at most ttl after the last cache_analysis(L, R) returns
\* exactly R, whatever stores, lookups and invalidations of other locators
\* and whatever sweeps ran in between (hist.stores keeps the store until an
\* invalidate_cache of the same slot or a clear_all; locators that differ
\* only in letter case are one slot).
C2_RoundTrip ==
    IsLookup =>
        ((LastKey \in DOMAIN hist.stores /\ now <= hist.stores[LastKey].at + ttl)
            => last.ret = Some(hist.stores[LastKey].result))

\* A hit before the expiry, after a sweep that removed another locator's
\* expired entry and left this one.
C2_Witness ==
    /\ IsLookup /\ last.ret # None
    /\ hist.swept
    /\ now < hist.stores[LastKey].at + ttl
    /\ \E k \in DOMAIN hist.stores :
          k # LastKey /\ hist.stores[k].by = "cleanup_expired"

\* C3: a lookup returns a result iff the entry is present and now <= expiry,
\* the result is the entry's, and no result past its expiry is returned.
C3_HitIffLive ==
    IsLookup =>
        /\ (last.ret # None) <=> Live(last.pre, LastKey, now)
        /\ last.ret # None =>
              /\ last.ret = Some(last.pre[LastKey].result)
              /\ ~(now > last.pre[LastKey].expiry_time)

\* A hit at exactly now = expiry.
C3_Witness ==
    /\ IsLookup /\ last.ret # None
    /\ now = last.pre[LastKey].expiry_time

\* C4: past the expiry the first lookup misses and removes exactly that
\* entry, a sweep removes and counts exactly the expired entries, a lookup of
\* an absent entry misses, and no entry is removed as expired twice.
C4_EvictedOnce ==
    /\ \A k \in DOMAIN hist.stores :
          /\ hist.stores[k].evictions <= 1
          /\ hist.stores[k].evictions = 1 <=> k \notin DOMAIN cache
    /\ IsLookup /\ LastKey \in DOMAIN last.pre /\ now > last.pre[LastKey].expiry_time
          => last.ret = None /\ cache = MapDel(last.pre, {LastKey})
    /\ IsLookup /\ LastKey \notin DOMAIN last.pre
          => last.ret = None /\ cache = last.pre
    /\ IsSweep =>
          /\ \A k \in DOMAIN last.pre :
                now > last.pre[k].expiry_time => k \notin DOMAIN cache
          /\ last.ret = Cardinality({k \in DOMAIN last.pre :
                                        now > last.pre[k].expiry_time})

\* A sweep that counted nothing because a lookup had already evicted the
\* expired entry.
C4_Witness ==
    /\ IsSweep /\ last.ret = 0
    /\ \E k \in DOMAIN hist.stores :
          /\ hist.stores[k].by = "get_cached_analysis"
          /\ hist.stores[k].evictions = 1
          /\ now > hist.stores[k].at + ttl

\* C5: cleanup_expired removes every entry with expiry < now, leaves the
\* entries with now <= expiry as they were, returns the number removed, and
\* returns 0 when it runs again with no clock advance or store in between.
C5_Sweep ==
    IsSweep =>
        /\ cache = MapDel(last.pre, {k \in DOMAIN last.pre : last.pre[k].expiry_time < now})
        /\ \A k \in DOMAIN last.pre :
              now <= last.pre[k].expiry_time
                  => k \in DOMAIN cache /\ cache[k] = last.pre[k]
        /\ last.ret = Cardinality(DOMAIN last.pre) - Cardinality(DOMAIN cache)
        /\ last.again => last.ret = 0

\* A sweep that removed one entry and left another, which is at its expiry.
C5_Witness ==
    /\ IsSweep /\ last.ret = 1
    /\ \E k \in DOMAIN cache : cache[k].expiry_time = now

\* Two characters that are one letter in either case, or one character.
SameLetter(c, d) ==
    c = d \/ \E i \in DOMAIN UpperCase : {c, d} = {UpperCase[i], LowerCase[i]}

\* Two strings that differ at most in the case of their letters.
SameUpToCase(s, t) ==
    Len(s) = Len(t) /\ \A i \in DOMAIN s : SameLetter(s[i], t[i])

\* The locators that differ from the last operation's at most in case.
Variants == {L \in Locators : SameUpToCase(L, last.url)}

\* C16: the key is a function of the lower-cased locator, so locators that
\* differ only in letter case address one slot: after a store under one of
\* them a lookup under any of them hits and returns the same result and an
\* invalidation under any of them removes the same entry, after an
\* invalidation under one a lookup under any of them misses, and a lookup
\* under one returns what a lookup under any other would have returned.
C16_CaseInsensitiveKey ==
    /\ \A L \in Locators : generate_key(L) = generate_key(StrLower(L))
    /\ \A L1, L2 \in Locators :
          SameUpToCase(L1, L2) => generate_key(L1) = generate_key(L2)
    /\ last.op = "cache_analysis" =>
          \A L \in Variants :
             /\ get_cached_analysis(cache, L, now).ret # None
             /\ get_cached_analysis(cache, L, now).ret
                   = get_cached_analysis(cache, last.url, now).ret
             /\ invalidate_cache(cache, L) = invalidate_cache(cache, last.url)
             /\ Cardinality(DOMAIN invalidate_cache(cache, L))
                   = Cardinality(DOMAIN cache) - 1
    /\ last.op = "invalidate_cache" =>
          \A L \in Variants : get_cached_analysis(cache, L, now).ret = None
    /\ IsLookup =>
          \A L \in Variants : get_cached_analysis(last.pre, L, now).ret = last.ret

\* A hit under a locator whose slot was filled under another letter case.
C16_Witness ==
    /\ IsLookup /\ last.ret # None
    /\ hist.stores[LastKey].locator # last.url
    /\ SameUpToCase(hist.stores[LastKey].locator, last.url)

\* C22: every entry holds the result of the most recent cache_analysis for
\* its key and expires at the time of that call plus the TTL: cache_analysis
\* replaces an entry that has not expired and restarts its TTL, and a lookup
\* that hits leaves every entry, result and expiry, as it was.
C22_ExpiryFromLastStore ==
    /\ \A k \in DOMAIN cache :
          /\ k \in DOMAIN hist.stores
          /\ cache[k] = [result |-> hist.stores[k].result,
                         expiry_time |-> hist.stores[k].at + ttl]
    /\ (IsLookup /\ last.ret # None) => cache = last.pre
    /\ IsLookup =>
          \A k \in DOMAIN cache : k \in DOMAIN last.pre /\ cache[k] = last.pre[k]

\* An entry that had not expired was replaced by a later store and expires
\* later than it would have.
C22_Witness ==
    /\ last.op = "cache_analysis"
    /\ LastKey \in DOMAIN cache
    /\ hist.stores[LastKey].over # None
    /\ hist.stores[LastKey].over[1] < cache[LastKey].expiry_time
    /\ cache[LastKey].expiry_time = hist.stores[LastKey].at + ttl

\* A hit later than the store, with another entry beside it in the cache.
C22_WitnessHit ==
    /\ IsLookup /\ last.ret # None
    /\ now > hist.stores[LastKey].at
    /\ Cardinality(DOMAIN cache) >= 2

(***************************************************************************)
(* analyzer.py: the file-tree summary.                                     *)
(***************************************************************************)
\* One object of the tree listing: item['path'], item['type'].
Entry(p, t) == [path |-> p, type |-> t]

\* str.split('/'): the segments between the separators, empty ones kept.
RECURSIVE Split(_)
Split(s) ==
    LET n == SpanLen(s, Char \ {"/"})
    IN IF n = Len(s) THEN <<s>> ELSE <<Take(s, n)>> \o Split(Drop(s, n + 1))

\* str <= str: code point order, a proper prefix first.
RECURSIVE StrLeq(_, _)
StrLeq(a, b) ==
    IF a = <<>> THEN TRUE
    ELSE IF b = <<>> THEN FALSE
    ELSE IF Head(a) = Head(b) THEN StrLeq(Tail(a), Tail(b))
    ELSE Ord[Head(a)] < Ord[Head(b)]

RECURSIVE Insert(_, _)
Insert(x, sorted) ==
    IF sorted = <<>> THEN <<x>>
    ELSE IF StrLeq(x, Head(sorted)) THEN <<x>> \o sorted
    ELSE <<Head(sorted)>> \o Insert(x, Tail(sorted))

\* sorted(list(S)) for a set S of strings.
RECURSIVE Sorted(_)
Sorted(S) ==
    IF S = {} THEN <<>>
    ELSE LET x == CHOOSE x \in S : TRUE IN Insert(x, Sorted(S \ {x}))

Max(S) == CHOOSE x \in S : \A y \in S : y <= x
Min2(a, b) == IF a <= b THEN a ELSE b

\* analyzer.py:255, the [:20] of top_level_structure
TopLevelLimit == 20

\* analyzer.py:243-247
top_level(tree) ==
    {LET parts == Split(tree[i].path)
     IN parts[1] \o (IF Len(parts) > 1 THEN <<"/">> ELSE <<>>) : i \in DOMAIN tree}

\* analyze_file_tree without the [:20].
top_level_structure_all(tree) == Sorted(top_level(tree))

\* analyzer.py:255
top_level_structure(tree) ==
    Take(Sorted(top_level(tree)), Min2(TopLevelLimit, Cardinality(top_level(tree))))

\* analyze_file_tree counting the separators of a path for its segments.
analyze_file_tree_separators(tree) ==
    [total_files |-> Cardinality({i \in DOMAIN tree : tree[i].type = "blob"}),
     total_dirs |-> Cardinality({i \in DOMAIN tree : tree[i].type = "tree"}),
     top_level_structure |-> top_level_structure(tree),
     max_depth |-> IF tree = <<>> THEN 0
                   ELSE Max({Len(Split(tree[i].path)) - 1 : i \in DOMAIN tree})]

\* analyzer.py:229-257
analyze_file_tree(tree) ==
    [total_files |-> Cardinality({i \in DOMAIN tree : tree[i].type = "blob"}),
     total_dirs |-> Cardinality({i \in DOMAIN tree : tree[i].type = "tree"}),
     top_level_structure |-> top_level_structure(tree),
     max_depth |-> IF tree = <<>> THEN 0
                   ELSE Max({Len(Split(tree[i].path)) : i \in DOMAIN tree})]

(***************************************************************************)
(* analyzer.py: the remote client.                                         *)
(*                                                                         *)
(* A response of the remote API is a record                                *)
(*   kind      "http" (a response came), "timeout" (requests Timeout),     *)
(*             "connection" (another RequestException)                     *)
(*   status    the HTTP status                                             *)
(*   text      the body text, or str(e) of the transport error             *)
(*   remaining the x-ratelimit-remaining header, None when absent          *)
(*   json      the decoded body, None when the body is not JSON            *)
(* A call returns Ok(value) or raises: Raised(class, message).             *)
(***************************************************************************)
Contains(s, sub) ==
    \/ sub = <<>>
    \/ \E i \in 1..(Len(s) - Len(sub) + 1) :
          s[i] = sub[1] /\ SubSeq(s, i, i + Len(sub) - 1) = sub

\* str(n) for a status code.
RECURSIVE DecStr(_)
DecStr(n) == IF n < 10 THEN <<Digits[n + 1]>>
             ELSE DecStr(n \div 10) \o <<Digits[(n % 10) + 1]>>

Ok(v) == [ok |-> TRUE, value |-> v]
Raised(cls, m) == [ok |-> FALSE, exc |-> cls, msg |-> m]
AnalyzerError(m) == Raised("AnalyzerError", m)

\* analyzer.py:76
MSG_NOT_FOUND ==
    <<"R","e","p","o","s","i","t","o","r","y"," ","n","o","t"," ","f","o","u",
      "n","d","."," ","C","h","e","c","k"," ","U","R","L"," ","a","n","d",
      " ","a","c","c","e","s","s"," ","p","e","r","m","i","s","s","i","o",
      "n","s",".">>
\* analyzer.py:82, up to {remaining}
MSG_RATE_LIMIT_HEAD ==
    <<"G","i","t","H","u","b"," ","A","P","I"," ","r","a","t","e"," ","l","i",
      "m","i","t"," ","e","x","c","e","e","d","e","d","."," ","R","e","m",
      "a","i","n","i","n","g",":"," ">>
\* analyzer.py:82, after {remaining}
MSG_RATE_LIMIT_TAIL ==
    <<"."," ","P","l","e","a","s","e"," ","t","r","y"," ","a","g","a","i","n",
      " ","l","a","t","e","r"," ","o","r"," ","p","r","o","v","i","d","e",
      " ","a"," ","G","i","t","H","u","b"," ","P","e","r","s","o","n","a",
      "l"," ","A","c","c","e","s","s"," ","T","o","k","e","n"," ","f","o",
      "r"," ","h","i","g","h","e","r"," ","l","i","m","i","t","s",".">>
\* analyzer.py:84
MSG_FORBIDDEN ==
    <<"A","c","c","e","s","s"," ","f","o","r","b","i","d","d","e","n","."," ",
      "T","h","i","s"," ","r","e","p","o","s","i","t","o","r","y"," ","m",
      "a","y"," ","b","e"," ","p","r","i","v","a","t","e"," ","o","r"," ",
      "r","e","q","u","i","r","e"," ","a","u","t","h","e","n","t","i","c",
      "a","t","i","o","n","."," ","P","l","e","a","s","e"," ","p","r","o",
      "v","i","d","e"," ","a"," ","P","e","r","s","o","n","a","l"," ","A",
      "c","c","e","s","s"," ","T","o","k","e","n",".">>
\* analyzer.py:86
MSG_INVALID_TOKEN ==
    <<"I","n","v","a","l","i","d"," ","o","r"," ","e","x","p","i","r","e","d",
      " ","P","e","r","s","o","n","a","l"," ","A","c","c","e","s","s"," ",
      "T","o","k","e","n",".">>
\* analyzer.py:88
MSG_API_ERROR ==
    <<"G","i","t","H","u","b"," ","A","P","I"," ","e","r","r","o","r",":"," ">>
\* analyzer.py:90
MSG_TIMEOUT ==
    <<"G","i","t","H","u","b"," ","A","P","I"," ","r","e","q","u","e","s","t",
      " ","t","i","m","e","d"," ","o","u","t","."," ","P","l","e","a","s",
      "e"," ","t","r","y"," ","a","g","a","i","n",".">>
\* analyzer.py:92
MSG_NETWORK ==
    <<"N","e","t","w","o","r","k"," ","e","r","r","o","r",":"," ">>
\* analyzer.py:118
MSG_TOO_LARGE ==
    <<"R","e","p","o","s","i","t","o","r","y"," ","t","o","o"," ","l","a","r",
      "g","e"," ","f","o","r"," ","a","n","a","l","y","s","i","s","."," ",
      "T","r","y"," ","a"," ","s","m","a","l","l","e","r"," ","r","e","p",
      "o","s","i","t","o","r","y",".">>
\* analyzer.py:122
MSG_TREE_HTTP ==
    <<"F","a","i","l","e","d"," ","t","o"," ","f","e","t","c","h"," ","f","i",
      "l","e"," ","t","r","e","e",":"," ">>
\* analyzer.py:124
MSG_TREE_TIMEOUT ==
    <<"F","i","l","e"," ","t","r","e","e"," ","r","e","q","u","e","s","t"," ",
      "t","i","m","e","d"," ","o","u","t","."," ","R","e","p","o","s","i",
      "t","o","r","y"," ","m","a","y"," ","b","e"," ","t","o","o"," ","l",
      "a","r","g","e",".">>
\* analyzer.py:126
MSG_TREE_NETWORK ==
    <<"N","e","t","w","o","r","k"," ","e","r","r","o","r"," ","f","e","t","c",
      "h","i","n","g"," ","f","i","l","e"," ","t","r","e","e",":"," ">>

\* app.py:83
KW_NOT_FOUND == <<"n","o","t"," ","f","o","u","n","d">>
\* app.py:86
KW_PRIVATE == <<"p","r","i","v","a","t","e">>
\* app.py:89
KW_INVALID == <<"i","n","v","a","l","i","d">>
\* app.py:89
KW_EXPIRED == <<"e","x","p","i","r","e","d">>
\* app.py:92
KW_TIMEOUT == <<"t","i","m","e","o","u","t">>
\* app.py:95
KW_TOO_LARGE == <<"t","o","o"," ","l","a","r","g","e">>
\* analyzer.py:79
KW_RATE_LIMIT == <<"r","a","t","e"," ","l","i","m","i","t">>

\* The manifest filenames of MANIFEST_FILES (analyzer.py:19-30).
F_package_json == <<"p","a","c","k","a","g","e",".","j","s","o","n">>
F_requirements_txt ==
    <<"r","e","q","u","i","r","e","m","e","n","t","s",".","t","x","t">>
F_pyproject_toml ==
    <<"p","y","p","r","o","j","e","c","t",".","t","o","m","l">>
F_Pipfile == <<"P","i","p","f","i","l","e">>
F_go_mod == <<"g","o",".","m","o","d">>
F_Cargo_toml == <<"C","a","r","g","o",".","t","o","m","l">>
F_pom_xml == <<"p","o","m",".","x","m","l">>
F_build_gradle == <<"b","u","i","l","d",".","g","r","a","d","l","e">>
F_Gemfile == <<"G","e","m","f","i","l","e">>
F_composer_json == <<"c","o","m","p","o","s","e","r",".","j","s","o","n">>

\* analyzer.py:19-30: filename -> ecosystem label.
MANIFEST_FILES ==
    <<<<F_package_json, "Node.js">>,
      <<F_requirements_txt, "Python">>,
      <<F_pyproject_toml, "Python">>,
      <<F_Pipfile, "Python">>,
      <<F_go_mod, "Go">>,
      <<F_Cargo_toml, "Rust">>,
      <<F_pom_xml, "Java/Maven">>,
      <<F_build_gradle, "Java/Gradle">>,
      <<F_Gemfile, "Ruby">>,
      <<F_composer_json, "PHP">>>>

P_react == <<"r","e","a","c","t">>
P_vue == <<"v","u","e">>
P_angular == <<"a","n","g","u","l","a","r">>
P_flask == <<"f","l","a","s","k">>
P_django == <<"d","j","a","n","g","o">>
P_express == <<"e","x","p","r","e","s","s">>
P_postgres == <<"p","o","s","t","g","r","e","s">>
P_pg == <<"p","g">>
P_mongo == <<"m","o","n","g","o">>
P_redis == <<"r","e","d","i","s">>
P_app_py == <<"a","p","p",".","p","y">>
\* analyzer.py:71, the default of data.get('default_branch', 'main')
MAIN_BRANCH == <<"m","a","i","n">>

Http(status, text, remaining, json) ==
    [kind |-> "http", status |-> status, text |-> text, remaining |-> remaining,
     json |-> json]
TimeoutResp == [kind |-> "timeout", status |-> 0, text |-> <<>>, remaining |-> None,
                json |-> None]
ConnectionResp(text) ==
    [kind |-> "connection", status |-> 0, text |-> text, remaining |-> None,
     json |-> None]

\* response.raise_for_status() raises HTTPError for a 4xx or 5xx status.
RaisesForStatus(resp) == resp.status >= 400 /\ resp.status < 600

\* response.json() on a body that is not JSON: requests >= 2.27 raises its
\* own JSONDecodeError, a RequestException, which the handler `wrap` turns
\* into an AnalyzerError; older versions raise a plain ValueError, which no
\* except clause of the fetch catches.
JsonDecodeFailure(wrap, text) ==
    {AnalyzerError(wrap \o text), Raised("ValueError", text)}

\* models.py:8-17
RepoMetadata(name, owner, description, stars, forks, default_branch, html_url) ==
    [name |-> name, owner |-> owner, description |-> description, stars |-> stars,
     forks |-> forks, default_branch |-> default_branch, url |-> html_url]

\* dict.get(key, default) on an optional field.
GetOr(field, default) == IF field = None THEN default ELSE field[1]

\* fetch_repo_metadata returning default metadata where it should raise for
\* a 404.
fetch_repo_metadata_lenient(owner, repo, resp) ==
    IF resp.kind = "timeout" THEN {AnalyzerError(MSG_TIMEOUT)}
    ELSE IF resp.kind = "connection" THEN {AnalyzerError(MSG_NETWORK \o resp.text)}
    ELSE IF resp.json = None
    THEN {Ok(RepoMetadata(repo, owner, <<>>, 0, 0, MAIN_BRANCH, <<>>))}
    ELSE LET data == resp.json[1]
         IN {Ok(RepoMetadata(GetOr(data.name, repo), GetOr(data.owner_login, owner),
                             GetOr(data.description, <<>>),
                             GetOr(data.stargazers_count, 0),
                             GetOr(data.forks_count, 0),
                             GetOr(data.default_branch, MAIN_BRANCH),
                             GetOr(data.html_url, <<>>)))}

\* analyzer.py:44-92, with the response (or transport failure) of
\* requests.get as an argument: the set of ways the call can end.
fetch_repo_metadata(owner, repo, resp) ==
    IF resp.kind = "timeout" THEN {AnalyzerError(MSG_TIMEOUT)}
    ELSE IF resp.kind = "connection" THEN {AnalyzerError(MSG_NETWORK \o resp.text)}
    ELSE IF RaisesForStatus(resp)
    THEN {IF resp.status = 404 THEN AnalyzerError(MSG_NOT_FOUND)
          ELSE IF resp.status = 403
          THEN IF \/ Contains(StrLower(resp.text), KW_RATE_LIMIT)
                  \/ resp.remaining # None
               THEN AnalyzerError(MSG_RATE_LIMIT_HEAD
                                  \o GetOr(resp.remaining, <<"0">>)
                                  \o MSG_RATE_LIMIT_TAIL)
               ELSE AnalyzerError(MSG_FORBIDDEN)
          ELSE IF resp.status = 401 THEN AnalyzerError(MSG_INVALID_TOKEN)
          ELSE AnalyzerError(MSG_API_ERROR \o DecStr(resp.status))}
    ELSE IF resp.json = None THEN JsonDecodeFailure(MSG_NETWORK, resp.text)
    ELSE LET data == resp.json[1]
         IN IF data.name = None \/ data.owner_login = None \/ data.html_url = None
            THEN {Raised("KeyError", <<>>)}
            ELSE {Ok(RepoMetadata(data.name[1], data.owner_login[1],
                                  GetOr(data.description, <<>>),
                                  GetOr(data.stargazers_count, 0),
                                  GetOr(data.forks_count, 0),
                                  GetOr(data.default_branch, MAIN_BRANCH),
                                  data.html_url[1]))}

\* fetch_file_tree that returns the partial listing of a truncated tree.
fetch_file_tree_partial(owner, repo, branch, resp) ==
    IF resp.kind = "timeout" THEN {AnalyzerError(MSG_TREE_TIMEOUT)}
    ELSE IF resp.kind = "connection"
    THEN {AnalyzerError(MSG_TREE_NETWORK \o resp.text)}
    ELSE IF RaisesForStatus(resp)
    THEN {AnalyzerError(MSG_TREE_HTTP \o DecStr(resp.status))}
    ELSE IF resp.json = None THEN JsonDecodeFailure(MSG_TREE_NETWORK, resp.text)
    ELSE {Ok(GetOr(resp.json[1].tree, <<>>))}

\* analyzer.py:94-126
fetch_file_tree(owner, repo, branch, resp) ==
    IF resp.kind = "timeout" THEN {AnalyzerError(MSG_TREE_TIMEOUT)}
    ELSE IF resp.kind = "connection"
    THEN {AnalyzerError(MSG_TREE_NETWORK \o resp.text)}
    ELSE IF RaisesForStatus(resp)
    THEN {AnalyzerError(MSG_TREE_HTTP \o DecStr(resp.status))}
    ELSE IF resp.json = None THEN JsonDecodeFailure(MSG_TREE_NETWORK, resp.text)
    ELSE LET data == resp.json[1]
         IN IF GetOr(data.truncated, FALSE)
            THEN {AnalyzerError(MSG_TOO_LARGE)}
            ELSE {Ok(GetOr(data.tree, <<>>))}

RECURSIVE SumBytes(_)
SumBytes(items) == IF items = <<>> THEN 0 ELSE Head(items)[2] + SumBytes(Tail(items))

\* The share bytes / total, not scaled to a percentage.
Share(bytes, total) == [num |-> bytes, den |-> total]

\* (bytes / total) * 100, kept as the fraction num/den.
Percentage(bytes, total) == [num |-> bytes * 100, den |-> total]

\* The language mapping of a response: the decoded body is
\* [isdict, items], items the (language, bytes) pairs in the body's order.
LanguagePercentages(data) ==
    IF SumBytes(data.items) = 0 THEN <<>>
    ELSE [i \in DOMAIN data.items |->
            <<data.items[i][1], Percentage(data.items[i][2], SumBytes(data.items))>>]

\* fetch_languages letting the failure of the call escape.
fetch_languages_strict(owner, repo, resp) ==
    IF resp.kind # "http" \/ RaisesForStatus(resp) \/ resp.json = None
    THEN {AnalyzerError(MSG_NETWORK \o resp.text)}
    ELSE IF ~resp.json[1].isdict THEN {AnalyzerError(MSG_NETWORK)}
    ELSE {Ok(LanguagePercentages(resp.json[1]))}

\* analyzer.py:128-154: every exception ends in the empty mapping.
fetch_languages(owner, repo, resp) ==
    IF resp.kind # "http" \/ RaisesForStatus(resp) \/ resp.json = None
    THEN {Ok(<<>>)}
    ELSE IF ~resp.json[1].isdict THEN {Ok(<<>>)}
    ELSE {Ok(LanguagePercentages(resp.json[1]))}

(***************************************************************************)
(* analyzer.py: the derived facts.                                         *)
(***************************************************************************)
ManifestNames == {MANIFEST_FILES[i][1] : i \in DOMAIN MANIFEST_FILES}
ManifestTech(f) ==
    MANIFEST_FILES[CHOOSE i \in DOMAIN MANIFEST_FILES : MANIFEST_FILES[i][1] = f][2]

BlobPaths(tree) == {tree[i].path : i \in {j \in DOMAIN tree : tree[j].type = "blob"}}

LastOf(parts) == parts[Len(parts)]

\* identify_package_manifests looking at the entries of every kind.
identify_package_manifests_any_kind(tree) ==
    {LastOf(Split(tree[i].path)) : i \in DOMAIN tree} \cap ManifestNames

\* analyzer.py:156-173; list(set(manifests)) has no order of its own: a set.
identify_package_manifests(tree) ==
    {LastOf(Split(p)) : p \in BlobPaths(tree)} \cap ManifestNames

LanguageNames(languages) == {languages[i][1] : i \in DOMAIN languages}

\* analyzer.py:175-227; list(set(stack)) has no order of its own: a set.
detect_tech_stack(tree, languages, manifests) ==
    LET paths == BlobPaths(tree)
        Low(kw) == \E p \in paths : Contains(StrLower(p), kw)
    IN LanguageNames(languages)
       \cup {ManifestTech(m) : m \in manifests \cap ManifestNames}
       \cup (IF Low(P_react) THEN {"React"} ELSE {})
       \cup (IF Low(P_vue) THEN {"Vue.js"} ELSE {})
       \cup (IF Low(P_angular) THEN {"Angular"} ELSE {})
       \cup (IF \E p \in paths : Contains(StrLower(p), P_flask) \/ Contains(p, P_app_py)
             THEN {"Flask"} ELSE {})
       \cup (IF Low(P_django) THEN {"Django"} ELSE {})
       \cup (IF Low(P_express) THEN {"Express.js"} ELSE {})
       \cup (IF Low(P_postgres) \/ Low(P_pg) THEN {"PostgreSQL"} ELSE {})
       \cup (IF Low(P_mongo) THEN {"MongoDB"} ELSE {})
       \cup (IF Low(P_redis) THEN {"Redis"} ELSE {})

\* a/b < c/d for two percentages
PctLess(x, y) == x.num * y.den < y.num * x.den

\* max(languages.items(), key=lambda x: x[1])[0]: the first of the largest.
PrimaryLanguage(languages) ==
    languages[CHOOSE i \in DOMAIN languages :
                /\ \A j \in DOMAIN languages : ~PctLess(languages[i][2], languages[j][2])
                /\ \A j \in 1..(i - 1) : PctLess(languages[j][2], languages[i][2])][1]

\* suggest_setup_steps that names the primary language only when there is
\* no manifest at all.
suggest_setup_steps_no_manifest(manifests, languages) ==
    LET hints ==
            (IF F_package_json \in manifests
             THEN <<"Node.js project detected", "Run: npm install">> ELSE <<>>)
         \o (IF F_requirements_txt \in manifests
             THEN <<"Python project detected", "Run: pip install -r requirements.txt">>
             ELSE <<>>)
         \o (IF F_pyproject_toml \in manifests
             THEN <<"Python Poetry project detected", "Run: poetry install">> ELSE <<>>)
         \o (IF F_go_mod \in manifests
             THEN <<"Go project detected", "Run: go mod download">> ELSE <<>>)
         \o (IF F_Cargo_toml \in manifests
             THEN <<"Rust project detected", "Run: cargo build">> ELSE <<>>)
         \o (IF F_Gemfile \in manifests
             THEN <<"Ruby project detected", "Run: bundle install">> ELSE <<>>)
    IN IF hints = <<>> /\ manifests = {} /\ languages # <<>>
       THEN <<"Primary language: " \o PrimaryLanguage(languages)>>
       ELSE hints

\* analyzer.py:259-300
suggest_setup_steps(manifests, languages) ==
    LET hints ==
            (IF F_package_json \in manifests
             THEN <<"Node.js project detected", "Run: npm install">> ELSE <<>>)
         \o (IF F_requirements_txt \in manifests
             THEN <<"Python project detected", "Run: pip install -r requirements.txt">>
             ELSE <<>>)
         \o (IF F_pyproject_toml \in manifests
             THEN <<"Python Poetry project detected", "Run: poetry install">> ELSE <<>>)
         \o (IF F_go_mod \in manifests
             THEN <<"Go project detected", "Run: go mod download">> ELSE <<>>)
         \o (IF F_Cargo_toml \in manifests
             THEN <<"Rust project detected", "Run: cargo build">> ELSE <<>>)
         \o (IF F_Gemfile \in manifests
             THEN <<"Ruby project detected", "Run: bundle install">> ELSE <<>>)
    IN IF hints = <<>> /\ languages # <<>>
       THEN <<"Primary language: " \o PrimaryLanguage(languages)>>
       ELSE hints

\* models.py:29-37 and analyzer.py:325-345: the facts derived from what was
\* fetched, assembled at time t.
AnalysisResult(repo_meta, languages, tree, t) ==
    LET manifests == identify_package_manifests(tree)
    IN [repo_meta |-> repo_meta,
        languages |-> languages,
        file_tree_summary |-> analyze_file_tree(tree),
        detected_stack |-> detect_tech_stack(tree, languages, manifests),
        package_manifests |-> manifests,
        hints |-> suggest_setup_steps(manifests, languages),
        cached_at |-> t]

\* models.py:39-61
to_dict(a) ==
    [repo_meta |-> a.repo_meta, languages |-> a.languages,
     file_tree_summary |-> a.file_tree_summary, detected_stack |-> a.detected_stack,
     package_manifests |-> a.package_manifests, hints |-> a.hints]

(***************************************************************************)
(* analyze_file_tree on its own: a tree listing is drawn, the summary is   *)
(* computed.                                                               *)
(***************************************************************************)
MaxTreeLen == 24

TreePool ==
   <<Entry(<<"s","r","c">>, "tree"),
     Entry(<<"s","r","c","/","a",".","p","y">>, "blob"),
     Entry(<<"s","r","c","/","l","i","b","/","b",".","p","y">>, "blob"),
     Entry(<<"s","r","c","-","x">>, "blob"),
     Entry(<<"s","r","c",".","x">>, "blob"),
     Entry(<<"s","r","c","0">>, "blob"),
     Entry(<<"R","E","A","D","M","E",".","m","d">>, "blob"),
     Entry(<<"a","/","b","/","c",".","t","x","t">>, "blob"),
     Entry(<<"a">>, "tree"),
     Entry(<<"B">>, "blob"),
     Entry(<<"_","x">>, "blob"),
     Entry(<<"d","o","c","s">>, "tree"),
     Entry(<<"c">>, "blob"),
     Entry(<<"d","/","d",".","p","y">>, "blob"),
     Entry(<<"e">>, "tree"),
     Entry(<<"f">>, "blob"),
     Entry(<<"g","/","g",".","p","y">>, "blob"),
     Entry(<<"h">>, "tree"),
     Entry(<<"i">>, "blob"),
     Entry(<<"j","/","j",".","p","y">>, "blob"),
     Entry(<<"k">>, "tree"),
     Entry(<<"l">>, "blob"),
     Entry(<<"m","/","m",".","p","y">>, "blob"),
     Entry(<<"n">>, "tree"),
     Entry(<<"o">>, "blob"),
     Entry(<<"p","/","p",".","p","y">>, "blob"),
     Entry(<<"q">>, "tree"),
     Entry(<<"r">>, "blob"),
     Entry(<<"s","/","s",".","p","y">>, "blob"),
     Entry(<<"t">>, "tree"),
     Entry(<<"u">>, "blob"),
     Entry(<<"v","/","v",".","p","y">>, "blob")>>

TreeSteps == {1, 7, 11}

\* The listing of n objects read off the pool from `start` in steps of `step`.
TreeOf(start, step, n) ==
    [i \in 1..n |-> TreePool[((start + (i - 1) * step) % Len(TreePool)) + 1]]

TreeInputs ==
    {TreeOf(start, step, n) :
        start \in 0..(Len(TreePool) - 1), step \in TreeSteps, n \in 0..MaxTreeLen}

TreeInit == file_tree \in TreeInputs /\ summary = None /\ CacheIdle /\ UrlIdle /\ AppIdle
            /\ FactIdle

AnalyzeTree ==
    /\ summary = None
    /\ summary' = Some(analyze_file_tree(file_tree))
    /\ UNCHANGED <<file_tree, factVars, urlVars, cacheVars, appVars>>

TreeNext == AnalyzeTree

SpecTree == TreeInit /\ [][TreeNext]_vars

\* a < b in code point order, stated on the first position where they differ.
LexLess(a, b) ==
    \E k \in 0..Min2(Len(a), Len(b)) :
        /\ Take(a, k) = Take(b, k)
        /\ \/ k = Len(a) /\ k < Len(b)
           \/ k < Len(a) /\ k < Len(b) /\ Ord[a[k + 1]] < Ord[b[k + 1]]

\* C10: for every tree, top_level_structure has at most 20 entries, is in
\* ascending lexicographic order, and holds no entry twice.
C10_TopLevel ==
    summary # None =>
        LET top == summary[1].top_level_structure
        IN /\ Len(top) <= 20
           /\ \A i \in 1..(Len(top) - 1) : LexLess(top[i], top[i + 1])
           /\ \A i, j \in DOMAIN top : i # j => top[i] # top[j]
           /\ Range(top) \subseteq top_level(file_tree)

\* A tree with more than 20 distinct top-level segments was summarised.
C10_Witness ==
    /\ summary # None
    /\ Cardinality(top_level(file_tree)) > 20
    /\ Len(summary[1].top_level_structure) = 20

\* The number of '/'-delimited segments of a path: one more than its '/'.
Segments(path) == Cardinality({i \in DOMAIN path : path[i] = "/"}) + 1

\* The number of entries of a listing that are of kind t.
RECURSIVE CountKind(_, _)
CountKind(tree, t) ==
    IF tree = <<>> THEN 0
    ELSE (IF Head(tree).type = t THEN 1 ELSE 0) + CountKind(Tail(tree), t)

\* C11: max_depth is the greatest number of '/'-delimited segments over the
\* entries and 0 for the empty tree, total_files the number of blob entries,
\* total_dirs the number of tree entries.
C11_Counts ==
    summary # None =>
        /\ summary[1].total_files = CountKind(file_tree, "blob")
        /\ summary[1].total_dirs = CountKind(file_tree, "tree")
        /\ file_tree = <<>> => summary[1].max_depth = 0
        /\ file_tree # <<>> =>
              /\ \A i \in DOMAIN file_tree :
                    Segments(file_tree[i].path) <= summary[1].max_depth
              /\ \E i \in DOMAIN file_tree :
                    Segments(file_tree[i].path) = summary[1].max_depth

C11_Witness ==
    /\ summary # None
    /\ file_tree = <<Entry(<<"a","/","b","/","c",".","t","x","t">>, "blob")>>
    /\ summary[1].max_depth = 3
    /\ summary[1].total_files = 1
    /\ summary[1].total_dirs = 0

(***************************************************************************)
(* app.py: the analyze endpoint, one request at a time. Each remote call   *)
(* is a step of its own (the request blocks in it and the clock may move); *)
(* what the remote API answers is the environment's choice.                *)
(***************************************************************************)
\* jsonify({'error': {'code': ..., 'message': ...}}), status
ErrorResponse(status, code, message) ==
    [status |-> status, code |-> code, message |-> message]
\* jsonify(result.to_dict()), 200
OkResponse(body) == [status |-> 200, body |-> body]

\* app.py:79-104: the response for an AnalyzerError with message m.
analyzer_error_response(m) ==
    LET low == StrLower(m)
    IN IF Contains(low, KW_NOT_FOUND) THEN ErrorResponse(404, "REPO_NOT_FOUND", m)
       ELSE IF Contains(low, KW_PRIVATE) THEN ErrorResponse(403, "AUTH_REQUIRED", m)
       ELSE IF Contains(low, KW_INVALID) \/ Contains(low, KW_EXPIRED)
       THEN ErrorResponse(401, "INVALID_TOKEN", m)
       ELSE IF Contains(low, KW_TIMEOUT) THEN ErrorResponse(504, "TIMEOUT", m)
       ELSE IF Contains(low, KW_TOO_LARGE) THEN ErrorResponse(413, "REPO_TOO_LARGE", m)
       ELSE ErrorResponse(500, "ANALYZER_ERROR", m)

\* app.py:79 and app.py:111-117: an AnalyzerError is mapped to its code, any
\* other exception ends in INTERNAL_ERROR.
failure_response(out) ==
    IF out.exc = "AnalyzerError" THEN analyzer_error_response(out.msg)
    ELSE ErrorResponse(500, "INTERNAL_ERROR", out.msg)

\* app.py:56: os.getenv('GITHUB_TOKEN'), unset.
GITHUB_TOKEN == None

\* analyzer.py:32-42: the Authorization header of the analyzer's calls.
Headers(token) == IF token = None THEN None ELSE Some(<<"token", token[1]>>)

(***************************************************************************)
(* What the environment can send and answer.                               *)
(***************************************************************************)
DEV_BRANCH == <<"d","e","v">>
RATE_TEXT == <<"A","P","I"," ","r","a","t","e"," ","l","i","m","i","t"," ",
               "e","x","c","e","e","d","e","d">>
FORBIDDEN_TEXT == <<"F","o","r","b","i","d","d","e","n">>
CONNECTION_TEXT == <<"C","o","n","n","e","c","t","i","o","n"," ",
                     "r","e","f","u","s","e","d">>
NOT_JSON_TEXT == <<"E","x","p","e","c","t","i","n","g"," ","v","a","l","u","e">>

HtmlUrl(owner, repo) ==
    HTTP \o <<"s">> \o SCHEME_SEP \o GITHUB_HOST \o <<"/">> \o owner \o <<"/">> \o repo

MetaBody(name, owner_login, description, stars, forks, branch, html_url) ==
    [name |-> name, owner_login |-> owner_login, description |-> description,
     stargazers_count |-> stars, forks_count |-> forks, default_branch |-> branch,
     html_url |-> html_url]

MetaBodies(owner, repo) ==
    {MetaBody(Some(repo), Some(owner), Some(<<"d">>), Some(5), Some(1),
              Some(DEV_BRANCH), Some(HtmlUrl(owner, repo))),
     MetaBody(Some(repo), Some(owner), None, None, None, None,
              Some(HtmlUrl(owner, repo))),
     MetaBody(None, Some(owner), None, None, None, None, None)}

MetaResponses(owner, repo) ==
    {Http(200, <<>>, None, Some(b)) : b \in MetaBodies(owner, repo)}
    \cup {Http(200, NOT_JSON_TEXT, None, None),
          Http(404, <<>>, None, None),
          Http(401, <<>>, None, None),
          Http(500, <<>>, None, None),
          TimeoutResp,
          ConnectionResp(CONNECTION_TEXT)}
    \cup {Http(403, t, r, None) :
            t \in {RATE_TEXT, FORBIDDEN_TEXT}, r \in {None, Some(<<"0">>), Some(<<"5","7">>)}}

TREE_A ==
    <<Entry(<<"R","E","A","D","M","E",".","m","d">>, "blob"),
      Entry(<<"s","r","c">>, "tree"),
      Entry(<<"s","r","c","/","a","p","p",".","p","y">>, "blob"),
      Entry(F_requirements_txt, "blob")>>

TreeBody(truncated, tree) == [truncated |-> truncated, tree |-> tree]

TreeResponses ==
    {Http(200, <<>>, None, Some(b)) :
        b \in {TreeBody(Some(FALSE), Some(TREE_A)), TreeBody(None, None),
               TreeBody(Some(TRUE), Some(TREE_A)), TreeBody(Some(TRUE), None)}}
    \cup {Http(200, NOT_JSON_TEXT, None, None),
          Http(404, <<>>, None, None),
          Http(500, <<>>, None, None),
          TimeoutResp,
          ConnectionResp(CONNECTION_TEXT)}

LangBody(isdict, items) == [isdict |-> isdict, items |-> items]

LangResponses ==
    {Http(200, <<>>, None, Some(b)) :
        b \in {LangBody(TRUE, <<<<"Python", 3>>, <<"HTML", 1>>>>),
               LangBody(TRUE, <<>>), LangBody(TRUE, <<<<"Python", 0>>>>),
               LangBody(FALSE, <<>>)}}
    \cup {Http(200, NOT_JSON_TEXT, None, None),
          Http(403, RATE_TEXT, Some(<<"0">>), None),
          Http(500, <<>>, None, None),
          TimeoutResp,
          ConnectionResp(CONNECTION_TEXT)}

L_https_ab == HTTP \o <<"s">> \o SCHEME_SEP \o L_ab
L_gitlab == <<"g","i","t","l","a","b",".","c","o","m","/","a","/","b">>

ReqUrls == {Some(Str(L_ab)), Some(Str(L_Ab)), Some(Str(L_https_ab)),
            Some(Str(L_gitlab)), Some(NonStr), None}
Tokens == {None, Some(<<"p","a","t">>)}

\* request.get_json(): repo_url is None when the field is missing.
AnalyzeBodies == {[repo_url |-> u, token |-> t] : u \in ReqUrls, t \in Tokens}

\* The requests of one run, and how far its clock goes.
MaxRequests == 2
MaxClock == 3

\* The locator up to letter case.
Slot(chars) == StrLower(chars)

AppInit == AppIdle /\ CacheIdle /\ UrlIdle /\ TreeIdle /\ FactIdle

Request(data, v, memo, c0) ==
    [endpoint |-> "analyze", seq |-> req.seq + 1, repo_url |-> data.repo_url,
     token |-> IF data.token # None THEN data.token ELSE GITHUB_TOKEN,
     owner |-> v.owner, repo |-> v.repo, valid |-> v.ok,
     started |-> now, memo |-> memo, cache0 |-> c0]

Event(call, arg, token, resp) ==
    [call |-> call, arg |-> arg, headers |-> Headers(token), resp |-> resp]
Local(call, arg) == [call |-> call, arg |-> arg]

\* app.py:43-75: the request is read, the locator validated, the cache asked.
AnalyzeBegin ==
    /\ pc \in {"idle", "done"}
    /\ req.seq < MaxRequests
    /\ \E data \in AnalyzeBodies :
        \E v \in {IF data.repo_url = None THEN ValidationError
                  ELSE validate_github_url(data.repo_url[1])} :
        \E r \in {IF v.ok THEN get_cached_analysis(cache, data.repo_url[1].chars, now)
                  ELSE [cache |-> cache, ret |-> None]} :
        \E slot \in {IF v.ok THEN Slot(data.repo_url[1].chars) ELSE <<>>} :
        \E memo \in {IF v.ok /\ slot \in DOMAIN hist.stores
                     THEN Some(hist.stores[slot]) ELSE None} :
            /\ req' = Request(data, v, memo, r.cache)
            /\ frame' = NoFrame
            /\ cache' = r.cache
            /\ hist' = IF DOMAIN r.cache # DOMAIN cache
                       THEN [hist EXCEPT !.stores = Evicted(@, {slot}, "get_cached_analysis")]
                       ELSE hist
            /\ IF data.repo_url = None
               THEN /\ calls' = <<>>
                    /\ outcome' = Some(ErrorResponse(400, "MISSING_FIELD", <<>>))
                    /\ pc' = "done"
               ELSE IF ~v.ok
               THEN /\ calls' = <<Local("validate_github_url", data.repo_url[1])>>
                    /\ outcome' = Some(ErrorResponse(400, "INVALID_URL", <<>>))
                    /\ pc' = "done"
               ELSE /\ calls' = <<Local("validate_github_url", data.repo_url[1]),
                                  Local("get_cached_analysis", data.repo_url[1].chars)>>
                    /\ IF r.ret # None
                       THEN outcome' = Some(OkResponse(to_dict(r.ret[1]))) /\ pc' = "done"
                       ELSE outcome' = None /\ pc' = "metadata"
    /\ UNCHANGED <<now, last, urlVars, treeVars, factVars>>

\* analyzer.py:317
FetchMetadata ==
    /\ pc = "metadata"
    /\ \E resp \in MetaResponses(req.owner, req.repo) :
         \E out \in fetch_repo_metadata(req.owner, req.repo, resp) :
            /\ calls' = Append(calls, Event("fetch_repo_metadata", <<>>, req.token, resp))
            /\ IF out.ok
               THEN /\ frame' = [frame EXCEPT !.repo_meta = Some(out.value)]
                    /\ pc' = "tree"
                    /\ outcome' = None
               ELSE /\ frame' = frame
                    /\ pc' = "done"
                    /\ outcome' = Some(failure_response(out))
    /\ UNCHANGED <<req, cacheVars, urlVars, treeVars, factVars>>

\* The tree call tried again after a failure instead of ending the request.
FetchFileTree_retry ==
    /\ pc = "tree"
    /\ \E resp \in TreeResponses :
         \E out \in fetch_file_tree(req.owner, req.repo,
                                    frame.repo_meta[1].default_branch, resp) :
            /\ calls' = Append(calls, Event("fetch_file_tree",
                                            frame.repo_meta[1].default_branch,
                                            req.token, resp))
            /\ IF out.ok
               THEN /\ frame' = [frame EXCEPT !.file_tree = Some(out.value)]
                    /\ pc' = "languages"
               ELSE /\ frame' = frame
                    /\ pc' = "tree"
            /\ outcome' = None
    /\ UNCHANGED <<req, cacheVars, urlVars, treeVars, factVars>>

\* The tree call on the branch 'main' whatever the metadata says.
FetchFileTree_main ==
    /\ pc = "tree"
    /\ \E resp \in TreeResponses :
         \E out \in fetch_file_tree(req.owner, req.repo, MAIN_BRANCH, resp) :
            /\ calls' = Append(calls, Event("fetch_file_tree", MAIN_BRANCH,
                                            req.token, resp))
            /\ IF out.ok
               THEN /\ frame' = [frame EXCEPT !.file_tree = Some(out.value)]
                    /\ pc' = "languages"
                    /\ outcome' = None
               ELSE /\ frame' = frame
                    /\ pc' = "done"
                    /\ outcome' = Some(failure_response(out))
    /\ UNCHANGED <<req, cacheVars, urlVars, treeVars, factVars>>

\* analyzer.py:320
FetchFileTree ==
    /\ pc = "tree"
    /\ \E resp \in TreeResponses :
         \E out \in fetch_file_tree(req.owner, req.repo,
                                    frame.repo_meta[1].default_branch, resp) :
            /\ calls' = Append(calls, Event("fetch_file_tree",
                                            frame.repo_meta[1].default_branch,
                                            req.token, resp))
            /\ IF out.ok
               THEN /\ frame' = [frame EXCEPT !.file_tree = Some(out.value)]
                    /\ pc' = "languages"
                    /\ outcome' = None
               ELSE /\ frame' = frame
                    /\ pc' = "done"
                    /\ outcome' = Some(failure_response(out))
    /\ UNCHANGED <<req, cacheVars, urlVars, treeVars, factVars>>

\* analyzer.py:323-345 and app.py:106-109: the languages are fetched, the
\* result assembled, cached and returned.
FetchLanguages ==
    /\ pc = "languages"
    /\ \E resp \in LangResponses :
        \E out \in fetch_languages(req.owner, req.repo, resp) :
            IF out.ok
            THEN \E analysis \in {AnalysisResult(frame.repo_meta[1], out.value,
                                                 frame.file_tree[1], now)} :
                    /\ calls' = calls \o
                          <<Event("fetch_languages", <<>>, req.token, resp),
                            Local("cache_analysis", req.repo_url[1].chars)>>
                    /\ cache' = cache_analysis(cache, req.repo_url[1].chars, analysis, now)
                    /\ hist' = [hist EXCEPT !.stores =
                                  MapPut(@, Slot(req.repo_url[1].chars),
                                         [result |-> analysis, at |-> now,
                                          evictions |-> 0, by |-> "none",
                                          locator |-> req.repo_url[1].chars,
                                          token |-> req.token,
                                          meta |-> calls[3].resp,
                                          tree |-> calls[4].resp])]
                    /\ outcome' = Some(OkResponse(to_dict(analysis)))
            ELSE /\ calls' = Append(calls, Event("fetch_languages", <<>>,
                                                 req.token, resp))
                 /\ cache' = cache
                 /\ hist' = hist
                 /\ outcome' = Some(failure_response(out))
    /\ pc' = "done"
    /\ UNCHANGED <<req, frame, now, last, urlVars, treeVars, factVars>>

\* Time passes, between requests or while one waits for the remote API.
Wait ==
    /\ now < MaxClock
    /\ now' = now + 1
    /\ UNCHANGED <<cache, last, hist, appVars, urlVars, treeVars, factVars>>

Next == AnalyzeBegin \/ FetchMetadata \/ FetchFileTree \/ FetchLanguages \/ Wait

Spec == AppInit /\ [][Next]_vars

\* Every remote call is a requests.get with a timeout (analyzer.py:61, 113,
\* 142): a request that waits in one of them leaves it, with an answer or
\* with requests.exceptions.Timeout. The only steps of Next that take a
\* waiting request to another place are FetchMetadata, FetchFileTree and
\* FetchLanguages, and the one for the request's place is always enabled.
CallReturns ==
    /\ pc \in {"metadata", "tree", "languages"}
    /\ pc' \in {"tree", "languages", "done"}

SpecLive == AppInit /\ [][Next]_vars /\ WF_pc(CallReturns)

(***************************************************************************)
(* app.py: the generate endpoint beside the analyze endpoint. What the     *)
(* generator writes is the subject of SpecGen; here a generation is the    *)
(* way it ends and the analysis it was given.                              *)
(***************************************************************************)
\* generator.py:1011-1043 as the endpoint sees it: the text, a
\* GeneratorError, or another exception.
GenerationEnds == {"markdown", "GeneratorError", "Exception"}

\* jsonify({'markdown': ..., 'generated_at': ...}), 200
GeneratedResponse(analysis) == [status |-> 200, markdown_of |-> analysis]

\* request.get_json() of a generate request; tone and model go to the
\* generator only.
GenerateBodies == {[repo_url |-> u] : u \in ReqUrls}

GenerateRequest(data, memo, c0) ==
    [endpoint |-> "generate", seq |-> req.seq + 1, repo_url |-> data.repo_url,
     token |-> None, owner |-> <<>>, repo |-> <<>>, valid |-> FALSE,
     started |-> now, memo |-> memo, cache0 |-> c0]

\* app.py:138-180. str.lower of a repo_url that is no string raises
\* AttributeError inside _generate_key, before the cache is read.
Generate ==
    /\ pc \in {"idle", "done"}
    /\ req.seq < MaxRequests
    /\ \E data \in GenerateBodies :
        \E isstr \in {data.repo_url # None /\ data.repo_url[1].isstr} :
        \E r \in {IF isstr THEN get_cached_analysis(cache, data.repo_url[1].chars, now)
                  ELSE [cache |-> cache, ret |-> None]} :
        \E slot \in {IF isstr THEN Slot(data.repo_url[1].chars) ELSE <<>>} :
        \E memo \in {IF isstr /\ slot \in DOMAIN hist.stores
                     THEN Some(hist.stores[slot]) ELSE None} :
        \E end \in GenerationEnds :
            /\ req' = GenerateRequest(data, memo, r.cache)
            /\ frame' = NoFrame
            /\ cache' = r.cache
            /\ hist' = IF DOMAIN r.cache # DOMAIN cache
                       THEN [hist EXCEPT !.stores = Evicted(@, {slot}, "get_cached_analysis")]
                       ELSE hist
            /\ pc' = "done"
            /\ IF data.repo_url = None
               THEN /\ calls' = <<>>
                    /\ outcome' = Some(ErrorResponse(400, "MISSING_FIELD", <<>>))
               ELSE IF ~isstr
               THEN /\ calls' = <<Local("get_cached_analysis", data.repo_url[1])>>
                    /\ outcome' = Some(ErrorResponse(500, "INTERNAL_ERROR", <<>>))
               ELSE IF r.ret = None
               THEN /\ calls' = <<Local("get_cached_analysis", data.repo_url[1].chars)>>
                    /\ outcome' = Some(ErrorResponse(404, "ANALYSIS_NOT_FOUND", <<>>))
               ELSE /\ calls' = <<Local("get_cached_analysis", data.repo_url[1].chars),
                                  Local("generate_readme", r.ret[1])>>
                    /\ outcome' = Some(CASE end = "markdown" -> GeneratedResponse(r.ret[1])
                                         [] end = "GeneratorError" ->
                                              ErrorResponse(500, "GENERATION_ERROR", <<>>)
                                         [] OTHER ->
                                              ErrorResponse(500, "INTERNAL_ERROR", <<>>))
    /\ UNCHANGED <<now, last, urlVars, treeVars, factVars>>

ServerNext ==
    AnalyzeBegin \/ FetchMetadata \/ FetchFileTree \/ FetchLanguages \/ Generate \/ Wait

SpecServer == AppInit /\ [][ServerNext]_vars

(***************************************************************************)
(* The analyzer's functions on their own: an input is drawn, the function  *)
(* named by its op runs on it.                                             *)
(***************************************************************************)
MaxManifestTree == 3
MaxBytes == 3
MaxLanguages == 3

ManifestPool ==
    {Entry(F_package_json, "blob"),
     Entry(<<"s","r","c","/">> \o F_package_json, "blob"),
     Entry(<<"w","e","b","/","u","i","/">> \o F_package_json, "blob"),
     Entry(F_package_json, "tree"),
     Entry(F_package_json \o <<"/","x",".","p","y">>, "blob"),
     Entry(<<"m","y","-">> \o F_package_json, "blob"),
     Entry(F_package_json \o <<".","b","a","k">>, "blob"),
     Entry(<<"P","a","c","k","a","g","e",".","j","s","o","n">>, "blob"),
     Entry(F_requirements_txt, "blob"),
     Entry(<<"a","p","i","/">> \o F_go_mod, "tree"),
     Entry(<<"a","p","i","/">> \o F_Gemfile, "blob"),
     Entry(<<"R","E","A","D","M","E",".","m","d">>, "blob")}

SeqsUpTo(S, n) == UNION {[1..k -> S] : k \in 0..n}

ManifestInputs ==
    {[op |-> "identify_package_manifests", tree |-> t] :
        t \in SeqsUpTo(ManifestPool, MaxManifestTree)}

LanguageKeys == {"Python", "HTML", "C", "Go"}

\* The bodies a JSON object of byte counts can decode to: no key twice.
LanguageItems ==
    {items \in SeqsUpTo(LanguageKeys \X (0..MaxBytes), MaxLanguages) :
        \A i, j \in DOMAIN items : i # j => items[i][1] # items[j][1]}

LanguageInputs ==
    {[op |-> "fetch_languages", resp |-> r] :
        r \in LangResponses
              \cup {Http(200, <<>>, None, Some(LangBody(TRUE, items))) :
                        items \in LanguageItems}}

FactInit ==
    /\ fin \in ManifestInputs \cup LanguageInputs
    /\ fout = None
    /\ CacheIdle /\ UrlIdle /\ TreeIdle /\ AppIdle

IdentifyManifests ==
    /\ fin.op = "identify_package_manifests"
    /\ fout = None
    /\ fout' = Some(identify_package_manifests(fin.tree))
    /\ UNCHANGED <<fin, urlVars, cacheVars, treeVars, appVars>>

FetchLanguagesAlone ==
    /\ fin.op = "fetch_languages"
    /\ fout = None
    /\ \E out \in fetch_languages(<<"a">>, <<"b">>, fin.resp) : fout' = Some(out)
    /\ UNCHANGED <<fin, urlVars, cacheVars, treeVars, appVars>>

FactNext == IdentifyManifests \/ FetchLanguagesAlone

SpecFacts == FactInit /\ [][FactNext]_vars

(***************************************************************************)
(* The metadata call on its own, over the answers a server can give.       *)
(***************************************************************************)
MetaStatuses ==
    {200, 201, 204, 300, 304, 400, 401, 402, 403, 404, 410, 422, 429, 451,
     500, 502, 503, 599}

MetaAnswers ==
    {Http(st, t, r, j) :
        st \in MetaStatuses,
        t \in {<<>>, RATE_TEXT, NOT_JSON_TEXT},
        r \in {None, Some(<<"0">>)},
        j \in {None} \cup {Some(b) : b \in MetaBodies(<<"a">>, <<"b">>)}}
    \cup {TimeoutResp, ConnectionResp(CONNECTION_TEXT), ConnectionResp(<<>>)}

MetaInputs ==
    {[op |-> "fetch_repo_metadata", owner |-> <<"a">>, repo |-> <<"b">>,
      resp |-> r] : r \in MetaAnswers}

MetaInit ==
    /\ fin \in MetaInputs
    /\ fout = None
    /\ CacheIdle /\ UrlIdle /\ TreeIdle /\ AppIdle

FetchMetadataAlone ==
    /\ fin.op = "fetch_repo_metadata"
    /\ fout = None
    /\ \E out \in fetch_repo_metadata(fin.owner, fin.repo, fin.resp) :
          fout' = Some(out)
    /\ UNCHANGED <<fin, urlVars, cacheVars, treeVars, appVars>>

MetaNext == FetchMetadataAlone

SpecMeta == MetaInit /\ [][MetaNext]_vars

\* The failure kinds whose message the text m is.
MetaKinds(m) ==
    {k \in {"not-found", "rate-limited", "forbidden", "invalid-credential",
            "api-error", "timeout", "network-error"} :
        \/ k = "not-found" /\ m = MSG_NOT_FOUND
        \/ k = "rate-limited" /\ StartsWith(m, MSG_RATE_LIMIT_HEAD)
        \/ k = "forbidden" /\ m = MSG_FORBIDDEN
        \/ k = "invalid-credential" /\ m = MSG_INVALID_TOKEN
        \/ k = "api-error" /\ StartsWith(m, MSG_API_ERROR)
        \/ k = "timeout" /\ m = MSG_TIMEOUT
        \/ k = "network-error" /\ StartsWith(m, MSG_NETWORK)}

\* The call ended with an AnalyzerError of exactly the kind k.
FailsAs(out, k) ==
    /\ ~out.ok
    /\ out.exc = "AnalyzerError"
    /\ MetaKinds(out.msg) = {k}

\* The metadata call has been made and has ended.
MetaCalled == fin.op = "fetch_repo_metadata" /\ fout # None

\* The answer has an error status: one raise_for_status raises on.
ErrorStatus(resp) ==
    resp.kind = "http" /\ resp.status \in 400..599

\* The answer has a status outside 2xx.
Non2xx(resp) ==
    resp.kind = "http" /\ resp.status \notin 200..299

\* What holds of the failures that do not depend on the reading of "other
\* status": 404, 401, a timeout, another transport error.
NamedFailures(resp, out) ==
    /\ (resp.kind = "http" /\ resp.status = 404) => FailsAs(out, "not-found")
    /\ (resp.kind = "http" /\ resp.status = 401)
          => FailsAs(out, "invalid-credential")
    /\ resp.kind = "timeout" => FailsAs(out, "timeout")
    /\ resp.kind = "connection"
          => (FailsAs(out, "network-error") /\ out.msg = MSG_NETWORK \o resp.text)

\* C17 as stated, "any other non-2xx status" taken to the letter: every
\* status outside 2xx other than 404, 401 and 403 gives the generic API error,
\* and no answer outside 2xx gives metadata.
C17_AsStated ==
    MetaCalled =>
        /\ NamedFailures(fin.resp, fout[1])
        /\ (Non2xx(fin.resp) /\ fin.resp.status \notin {401, 403, 404})
              => FailsAs(fout[1], "api-error")
        /\ (Non2xx(fin.resp) \/ fin.resp.kind # "http") => ~fout[1].ok

\* C17: a 404 gives not-found, a 401 invalid-credential, every other error
\* status (400 to 599) except 403 the generic API error naming the status, a
\* timeout gives timeout and another transport error gives network-error;
\* each message is of one kind only and no failed call returns metadata.
C17_FailureKinds ==
    MetaCalled =>
        /\ NamedFailures(fin.resp, fout[1])
        /\ (ErrorStatus(fin.resp) /\ fin.resp.status \notin {401, 403, 404})
              => /\ FailsAs(fout[1], "api-error")
                 /\ fout[1].msg = MSG_API_ERROR \o DecStr(fin.resp.status)
        /\ (ErrorStatus(fin.resp) \/ fin.resp.kind # "http") => ~fout[1].ok

\* An error status other than the named ones has been answered.
C17_Witness ==
    /\ MetaCalled
    /\ fin.resp.kind = "http"
    /\ fin.resp.status = 502
    /\ FailsAs(fout[1], "api-error")

\* A final answer with a redirect status and a repository body gives metadata.
C17_WitnessRedirect ==
    /\ MetaCalled
    /\ fin.resp.kind = "http"
    /\ fin.resp.status = 304
    /\ fout[1].ok

\* name is the final '/'-delimited segment of path.
FinalSegment(path, name) ==
    /\ EndsWith(path, name)
    /\ Len(path) > Len(name) => path[Len(path) - Len(name)] = "/"

Reverse(s) == [i \in DOMAIN s |-> s[Len(s) + 1 - i]]

\* C12: identify_package_manifests returns exactly the known manifest
\* filenames that are the final path segment of some blob entry, as a set
\* (each name once, whatever the order of the entries and however many
\* directories hold it); tree entries and names that merely contain a
\* manifest name do not count.
C12_Manifests ==
    (fin.op = "identify_package_manifests" /\ fout # None) =>
        /\ fout[1] = {m \in ManifestNames :
                        \E i \in DOMAIN fin.tree :
                            /\ fin.tree[i].type = "blob"
                            /\ FinalSegment(fin.tree[i].path, m)}
        /\ fout[1] = identify_package_manifests(Reverse(fin.tree))

C12_Witness ==
    /\ fin.op = "identify_package_manifests"
    /\ fout = Some({F_package_json})
    /\ Len(fin.tree) = 3
    /\ fin.tree[1].path # fin.tree[2].path
    /\ FinalSegment(fin.tree[1].path, F_package_json)
    /\ FinalSegment(fin.tree[2].path, F_package_json)
    /\ fin.tree[1].type = "blob"
    /\ fin.tree[2].type = "blob"
    /\ fin.tree[3] = Entry(<<"a","p","i","/">> \o F_go_mod, "tree")

\* The sum of the byte counts of a body.
RECURSIVE TotalBytes(_)
TotalBytes(items) ==
    IF items = <<>> THEN 0 ELSE items[1][2] + TotalBytes(Tail(items))

\* The sum of the fractions of a language mapping, as a fraction.
RECURSIVE SumPct(_)
SumPct(languages) ==
    IF languages = <<>> THEN [num |-> 0, den |-> 1]
    ELSE LET x == languages[1][2]
             rest == SumPct(Tail(languages))
         IN [num |-> x.num * rest.den + rest.num * x.den, den |-> x.den * rest.den]

\* The response carries a JSON object of byte counts.
LangDecoded(resp) ==
    /\ resp.kind = "http"
    /\ ~RaisesForStatus(resp)
    /\ resp.json # None
    /\ resp.json[1].isdict

\* C13: for byte counts with a non-zero total the languages returned are the
\* keys of the body, each with a share within [0, 100], the shares summing to
\* 100 (the shares are kept as exact fractions); for an empty body or one
\* whose counts are all zero the mapping returned is empty, and no share has
\* a zero divisor.
C13_Percentages ==
    (fin.op = "fetch_languages" /\ fout # None /\ LangDecoded(fin.resp)) =>
        LET items == fin.resp.json[1].items
        IN /\ fout[1].ok
           /\ \A i \in DOMAIN fout[1].value : fout[1].value[i][2].den > 0
           /\ IF TotalBytes(items) = 0 THEN fout[1].value = <<>>
              ELSE /\ Len(fout[1].value) = Len(items)
                   /\ \A i \in DOMAIN items :
                        /\ fout[1].value[i][1] = items[i][1]
                        /\ 0 <= fout[1].value[i][2].num
                        /\ fout[1].value[i][2].num <= 100 * fout[1].value[i][2].den
                        /\ fout[1].value[i][2].num * TotalBytes(items)
                             = 100 * items[i][2] * fout[1].value[i][2].den
                   /\ SumPct(fout[1].value).num = 100 * SumPct(fout[1].value).den

C13_Witness ==
    /\ fin.op = "fetch_languages"
    /\ fout # None
    /\ LangDecoded(fin.resp)
    /\ fin.resp.json[1].items = <<<<"Python", 2>>, <<"HTML", 0>>, <<"C", 1>>>>
    /\ fout[1].ok
    /\ Len(fout[1].value) = 3
    /\ fout[1].value[3] = <<"C", [num |-> 100, den |-> 3]>>

\* The counts of the body are all zero, and there are some.
C13_WitnessZero ==
    /\ fin.op = "fetch_languages"
    /\ LangDecoded(fin.resp)
    /\ Len(fin.resp.json[1].items) = 2
    /\ TotalBytes(fin.resp.json[1].items) = 0
    /\ fout = Some(Ok(<<>>))

(***************************************************************************)
(* generator.py: the README generator.  A text is the sequence of its      *)
(* characters; a backquote stands as "^", a character outside ASCII as    *)
(* "~".                                                                   *)
(***************************************************************************)
\* The characters of a string literal.
Chars(s) == [i \in 1..Len(s) |-> SubSeq(s, i, i)]

\* The sequences seqs[lo], ..., seqs[hi] put end to end.
RECURSIVE ConcatRange(_, _, _)
ConcatRange(seqs, lo, hi) ==
    IF lo > hi THEN <<>>
    ELSE IF lo = hi THEN seqs[lo]
    ELSE ConcatRange(seqs, lo, (lo + hi) \div 2)
         \o ConcatRange(seqs, ((lo + hi) \div 2) + 1, hi)

Concat(seqs) == ConcatRange(seqs, 1, Len(seqs))

\* sep.join(items)
Join(items, sep) ==
    Concat([i \in DOMAIN items |-> IF i = 1 THEN items[i] ELSE sep \o items[i]])

\* The first position from i on where s has the character c, Len(s) + 1
\* when there is none.
RECURSIVE Scan(_, _, _)
Scan(s, c, i) == IF i > Len(s) \/ s[i] = c THEN i ELSE Scan(s, c, i + 1)

\* s.split(c): the pieces between the places of c.
SplitOn(s, c) ==
    LET at == SelectSeq([i \in DOMAIN s |-> i], LAMBDA i : s[i] = c)
        n == Len(at)
    IN [k \in 1..(n + 1) |->
          SubSeq(s, IF k = 1 THEN 1 ELSE at[k - 1] + 1,
                    IF k = n + 1 THEN Len(s) ELSE at[k] - 1)]

\* s.split(c, 1)[1] for an s that holds c
AfterFirst(s, c) == Drop(s, Scan(s, c, 1))

\* s.replace(c, '')
RemoveChar(s, c) == SelectSeq(s, LAMBDA x : x # c)

RECURSIVE DecVal(_)
DecVal(s) ==
    IF s = <<>> THEN 0
    ELSE DecVal(Front(s)) * 10
         + (CHOOSE d \in 0..9 : Digits[d + 1] = s[Len(s)])

\* int(s) of a stripped text: Some(value) for a run of digits, None where
\* int raises ValueError.  The signed and the underscore forms int also
\* reads are not produced by the prompt.
ParseInt(s) ==
    IF s # <<>> /\ \A i \in DOMAIN s : s[i] \in Range(Digits)
    THEN Some(DecVal(s)) ELSE None

\* f"{pct:.1f}" of the percentage num/den: the nearest tenth, a tie going
\* to the even one.
FormatPct(p) ==
    LET fl == (p.num * 10) \div p.den
        rest == 2 * (p.num * 10 - fl * p.den)
        tenths == IF rest > p.den \/ (rest = p.den /\ fl % 2 = 1)
                  THEN fl + 1 ELSE fl
    IN DecStr(tenths \div 10) \o <<".">> \o DecStr(tenths % 10)

\* The items put one by one behind every item that is not smaller: the
\* order of sorted(items, key=lambda x: x[1], reverse=True).
RECURSIVE InsertDesc(_, _)
InsertDesc(sorted, x) ==
    IF sorted = <<>> THEN <<x>>
    ELSE IF PctLess(Head(sorted)[2], x[2]) THEN <<x>> \o sorted
    ELSE <<Head(sorted)>> \o InsertDesc(Tail(sorted), x)

RECURSIVE SortedDesc(_)
SortedDesc(items) ==
    IF items = <<>> THEN <<>>
    ELSE InsertDesc(SortedDesc(Front(items)), items[Len(items)])

\* The literal parts of an f-string with its fields between them.
RECURSIVE Interleave(_, _)
Interleave(lits, fields) ==
    IF lits = <<>> THEN <<>>
    ELSE IF fields = <<>> THEN Head(lits)
    ELSE Head(lits) \o Head(fields) \o Interleave(Tail(lits), Tail(fields))

GeneratorError(m) == Raised("GeneratorError", m)

\* generator.py:148-178: the fixed text before each field of the prompt.
PROMPT_LITS ==
    <<Chars("You are an expert technical writer creating a beautiful,"
            \o " professional README.md for a GitHub repository.\n\nREPOSI"
            \o "TORY INFORMATION:\n- Name: "),
      Chars("\n- Owner: "),
      Chars("\n- Description: "),
      Chars("\n- Stars: "),
      Chars("\n- Forks: "),
      Chars("\n- URL: "),
      Chars("\n\nPROGRAMMING LANGUAGES:\n"),
      Chars("\n\nDETECTED TECH STACK:\n"),
      Chars("\n\nPACKAGE MANIFESTS FOUND:\n"),
      Chars("\n\nFILE STRUCTURE (Top Level):\n"),
      Chars("\n\nPROJECT STATISTICS:\n- Total Files: "),
      Chars("\n- Total Directories: "),
      Chars("\n- Max Depth: "),
      Chars("\n\nSETUP HINTS:\n"),
      Chars("\n\nINSTRUCTIONS:\n")>>

\* generator.py:179-408: the fixed instructions that end the prompt, line
\* by line; the first line continues the line of the tone instruction.
PROMPT_TAIL_LINES ==
    <<<<>>,
      <<>>,
      Chars("IMPORTANT - MERMAID ARCHITECTURE DIAGRAMS:"),
      Chars("You MUST create detailed, professional Mermaid diagrams "
            \o "that will render as VISUAL FLOWCHARTS."),
      <<>>,
      Chars("**CRITICAL: Use PROPER Mermaid syntax - diagrams will re"
            \o "nder as visual graphics on GitHub!**"),
      <<>>,
      Chars("**Example 1 - Full Stack Web App:**"),
      Chars("Use this Mermaid syntax (with triple backticks):"),
      Chars("graph TB"),
      Chars("    A[User/Browser] -->|HTTP Request| B[Frontend<br/>Rea"
            \o "ct/HTML/CSS/JS]"),
      Chars("    B -->|API Calls| C[Backend API<br/>Node.js/Python]"),
      Chars("    C -->|Query| D[(Database<br/>PostgreSQL/MongoDB)]"),
      Chars("    D -->|Data| C"),
      Chars("    C -->|JSON Response| B"),
      Chars("    B -->|Render| A"),
      Chars("    "),
      Chars("    style A fill:#e1f5ff"),
      Chars("    style B fill:#fff3e0"),
      Chars("    style C fill:#f3e5f5"),
      Chars("    style D fill:#e8f5e9"),
      <<>>,
      Chars("**Example 2 - Detailed Full Stack with Styling:**"),
      Chars("Use this Mermaid syntax (with triple backticks):"),
      Chars("flowchart TD"),
      Chars("    Start([User Login]) --> Survey[Takes Career Survey]"),
      Chars("    Survey --> Analysis[AI: Analyze Profile]"),
      Chars("    Analysis --> Suggestions[AI Career Suggestions<br/>3"
            \o " Categories]"),
      Chars("    Suggestions --> Display[Display Results]"),
      Chars("    Display --> End([User Reviews])"),
      Chars("    "),
      Chars("    style Start fill:#4CAF50,stroke:#2E7D32,color:#fff"),
      Chars("    style Survey fill:#2196F3,stroke:#1565C0,color:#fff"),
      Chars("    style Analysis fill:#9C27B0,stroke:#6A1B9A,color:#ff"
            \o "f"),
      Chars("    style Suggestions fill:#FF9800,stroke:#E65100,color:"
            \o "#fff"),
      Chars("    style Display fill:#00BCD4,stroke:#006064,color:#fff"),
      Chars("    style End fill:#4CAF50,stroke:#2E7D32,color:#fff"),
      <<>>,
      Chars("**Example 3 - Backend API Flow:**"),
      Chars("Use this Mermaid syntax (with triple backticks):"),
      Chars("graph TB"),
      Chars("    A[Client Request] -->|HTTP| B{API Gateway}"),
      Chars("    B -->|Auth| C[Authentication]"),
      Chars("    C -->|Valid| D[Business Logic]"),
      Chars("    C -->|Invalid| E[Error Response]"),
      Chars("    D -->|Query| F[(Database)]"),
      Chars("    F -->|Data| D"),
      Chars("    D -->|Process| G[Response Formatter]"),
      Chars("    G -->|JSON| H[Client]"),
      Chars("    "),
      Chars("    style A fill:#e3f2fd"),
      Chars("    style B fill:#fff3e0"),
      Chars("    style C fill:#f3e5f5"),
      Chars("    style D fill:#e8f5e9"),
      Chars("    style E fill:#ffebee"),
      Chars("    style F fill:#e0f2f1"),
      Chars("    style G fill:#fce4ec"),
      Chars("    style H fill:#e1f5fe"),
      <<>>,
      Chars("**IMPORTANT STYLING RULES:**"),
      Chars("- Use ^style NodeName fill:#COLOR^ to add colors"),
      Chars("- Use descriptive node labels with ^<br/>^ for line brea"
            \o "ks"),
      Chars("- Use different shapes: ^[]^ for boxes, ^()^ for rounded"
            \o ", ^{}^ for diamonds, ^[()]^ for stadium"),
      Chars("- Add edge labels with ^|Label|^ between arrows"),
      Chars("- Make it visually appealing and easy to understand"),
      <<>>,
      Chars("Create a similar detailed, STYLED diagram based on the d"
            \o "etected tech stack!"),
      <<>>,
      Chars("IMPORTANT - TECHNOLOGY BADGE REFERENCE:"),
      Chars("Use these official shields.io badges for common technolo"
            \o "gies (use official logos, NOT emojis):"),
      <<>>,
      Chars("**Frontend:**"),
      Chars("- ![React](https://img.shields.io/badge/React-20232A?sty"
            \o "le=for-the-badge&logo=react&logoColor=61DAFB)"),
      Chars("- ![Vue.js](https://img.shields.io/badge/Vue.js-35495E?s"
            \o "tyle=for-the-badge&logo=vue.js&logoColor=4FC08D)"),
      Chars("- ![Angular](https://img.shields.io/badge/Angular-DD0031"
            \o "?style=for-the-badge&logo=angular&logoColor=white)"),
      Chars("- ![HTML5](https://img.shields.io/badge/HTML5-E34F26?sty"
            \o "le=for-the-badge&logo=html5&logoColor=white)"),
      Chars("- ![CSS3](https://img.shields.io/badge/CSS3-1572B6?style"
            \o "=for-the-badge&logo=css3&logoColor=white)"),
      Chars("- ![JavaScript](https://img.shields.io/badge/JavaScript-"
            \o "F7DF1E?style=for-the-badge&logo=javascript&logoColor=bla"
            \o "ck)"),
      Chars("- ![TypeScript](https://img.shields.io/badge/TypeScript-"
            \o "007ACC?style=for-the-badge&logo=typescript&logoColor=whi"
            \o "te)"),
      Chars("- ![Tailwind CSS](https://img.shields.io/badge/Tailwind_"
            \o "CSS-38B2AC?style=for-the-badge&logo=tailwind-css&logoCol"
            \o "or=white)"),
      <<>>,
      Chars("**Backend:**"),
      Chars("- ![Node.js](https://img.shields.io/badge/Node.js-43853D"
            \o "?style=for-the-badge&logo=node.js&logoColor=white)"),
      Chars("- ![Python](https://img.shields.io/badge/Python-3776AB?s"
            \o "tyle=for-the-badge&logo=python&logoColor=white)"),
      Chars("- ![Flask](https://img.shields.io/badge/Flask-000000?sty"
            \o "le=for-the-badge&logo=flask&logoColor=white)"),
      Chars("- ![Django](https://img.shields.io/badge/Django-092E20?s"
            \o "tyle=for-the-badge&logo=django&logoColor=white)"),
      Chars("- ![Express.js](https://img.shields.io/badge/Express.js-"
            \o "404D59?style=for-the-badge&logo=express&logoColor=white)"),
      Chars("- ![FastAPI](https://img.shields.io/badge/FastAPI-005571"
            \o "?style=for-the-badge&logo=fastapi&logoColor=white)"),
      Chars("- ![Go](https://img.shields.io/badge/Go-00ADD8?style=for"
            \o "-the-badge&logo=go&logoColor=white)"),
      Chars("- ![Java](https://img.shields.io/badge/Java-ED8B00?style"
            \o "=for-the-badge&logo=openjdk&logoColor=white)"),
      Chars("- ![Ruby](https://img.shields.io/badge/Ruby-CC342D?style"
            \o "=for-the-badge&logo=ruby&logoColor=white)"),
      Chars("- ![PHP](https://img.shields.io/badge/PHP-777BB4?style=f"
            \o "or-the-badge&logo=php&logoColor=white)"),
      <<>>,
      Chars("**Database:**"),
      Chars("- ![PostgreSQL](https://img.shields.io/badge/PostgreSQL-"
            \o "316192?style=for-the-badge&logo=postgresql&logoColor=whi"
            \o "te)"),
      Chars("- ![MongoDB](https://img.shields.io/badge/MongoDB-4EA94B"
            \o "?style=for-the-badge&logo=mongodb&logoColor=white)"),
      Chars("- ![MySQL](https://img.shields.io/badge/MySQL-00000F?sty"
            \o "le=for-the-badge&logo=mysql&logoColor=white)"),
      Chars("- ![Redis](https://img.shields.io/badge/Redis-DC382D?sty"
            \o "le=for-the-badge&logo=redis&logoColor=white)"),
      Chars("- ![SQLite](https://img.shields.io/badge/SQLite-07405E?s"
            \o "tyle=for-the-badge&logo=sqlite&logoColor=white)"),
      <<>>,
      Chars("**DevOps & Tools:**"),
      Chars("- ![Docker](https://img.shields.io/badge/Docker-2496ED?s"
            \o "tyle=for-the-badge&logo=docker&logoColor=white)"),
      Chars("- ![Kubernetes](https://img.shields.io/badge/Kubernetes-"
            \o "326CE5?style=for-the-badge&logo=kubernetes&logoColor=whi"
            \o "te)"),
      Chars("- ![Git](https://img.shields.io/badge/Git-F05032?style=f"
            \o "or-the-badge&logo=git&logoColor=white)"),
      Chars("- ![GitHub](https://img.shields.io/badge/GitHub-100000?s"
            \o "tyle=for-the-badge&logo=github&logoColor=white)"),
      Chars("- ![AWS](https://img.shields.io/badge/AWS-232F3E?style=f"
            \o "or-the-badge&logo=amazon-aws&logoColor=white)"),
      Chars("- ![Firebase](https://img.shields.io/badge/Firebase-FFCA"
            \o "28?style=for-the-badge&logo=firebase&logoColor=black)"),
      <<>>,
      Chars("Use similar format for any other technologies detected. "
            \o "Find logo names at https://simpleicons.org/"),
      <<>>,
      Chars("Create a BEAUTIFUL, COMPREHENSIVE README.md with these r"
            \o "equirements:"),
      <<>>,
      Chars("1. **Title Section**:"),
      Chars("   - Use the repository name as the main title"),
      Chars("   - Add relevant badges (stars, forks, license, build s"
            \o "tatus)"),
      Chars("   - Include a compelling tagline based on the descripti"
            \o "on"),
      <<>>,
      Chars("2. **Description**:"),
      Chars("   - Write an engaging overview (2-3 paragraphs)"),
      Chars("   - Highlight the main purpose and key features"),
      Chars("   - Mention the target audience"),
      <<>>,
      Chars("3. **Features** (if applicable):"),
      Chars("   - List 5-8 key features with emojis"),
      Chars("   - Make them specific to this project based on the tec"
            \o "h stack"),
      <<>>,
      Chars("4. **Tech Stack**:"),
      Chars("   - **IMPORTANT**: Use official technology icons/logos,"
            \o " NOT emojis!"),
      Chars("   - Use shields.io badges with official logos for each "
            \o "technology"),
      Chars("   - Format: ![TechName](https://img.shields.io/badge/Te"
            \o "chName-HexColor?style=for-the-badge&logo=techname&logoCo"
            \o "lor=white)"),
      Chars("   - Group by category (Frontend, Backend, Database, Dev"
            \o "Ops, etc.)"),
      Chars("   - Examples:"),
      Chars("     * ![React](https://img.shields.io/badge/React-20232"
            \o "A?style=for-the-badge&logo=react&logoColor=61DAFB)"),
      Chars("     * ![Python](https://img.shields.io/badge/Python-377"
            \o "6AB?style=for-the-badge&logo=python&logoColor=white)"),
      Chars("     * ![JavaScript](https://img.shields.io/badge/JavaSc"
            \o "ript-F7DF1E?style=for-the-badge&logo=javascript&logoColo"
            \o "r=black)"),
      Chars("     * ![TypeScript](https://img.shields.io/badge/TypeSc"
            \o "ript-007ACC?style=for-the-badge&logo=typescript&logoColo"
            \o "r=white)"),
      Chars("     * ![Node.js](https://img.shields.io/badge/Node.js-4"
            \o "3853D?style=for-the-badge&logo=node.js&logoColor=white)"),
      Chars("     * ![Flask](https://img.shields.io/badge/Flask-00000"
            \o "0?style=for-the-badge&logo=flask&logoColor=white)"),
      Chars("     * ![PostgreSQL](https://img.shields.io/badge/Postgr"
            \o "eSQL-316192?style=for-the-badge&logo=postgresql&logoColo"
            \o "r=white)"),
      Chars("     * ![MongoDB](https://img.shields.io/badge/MongoDB-4"
            \o "EA94B?style=for-the-badge&logo=mongodb&logoColor=white)"),
      Chars("     * ![Docker](https://img.shields.io/badge/Docker-249"
            \o "6ED?style=for-the-badge&logo=docker&logoColor=white)"),
      Chars("     * ![HTML5](https://img.shields.io/badge/HTML5-E34F2"
            \o "6?style=for-the-badge&logo=html5&logoColor=white)"),
      Chars("     * ![CSS3](https://img.shields.io/badge/CSS3-1572B6?"
            \o "style=for-the-badge&logo=css3&logoColor=white)"),
      Chars("   - Use appropriate colors and logos from https://simpl"
            \o "eicons.org/"),
      Chars("   - Make sure each technology has its official logo bad"
            \o "ge"),
      <<>>,
      Chars("5. **Architecture** (REQUIRED - MUST BE VISUAL!):"),
      Chars("   - **CRITICAL**: Create a BEAUTIFUL, STYLED Mermaid di"
            \o "agram that renders as a visual flowchart"),
      Chars("   - Use ^flowchart TD^ or ^graph TB^ for best visual re"
            \o "sults"),
      Chars("   - **MUST include style definitions** for colored boxe"
            \o "s (like the examples above)"),
      Chars("   - Use descriptive labels with ^<br/>^ for multi-line "
            \o "text"),
      Chars("   - Add edge labels with ^|Label|^ to show data flow"),
      Chars("   - Create a comprehensive diagram showing:"),
      Chars("     * User/Client interaction (start point)"),
      Chars("     * Frontend components (if detected) - use blue/cyan"
            \o " colors"),
      Chars("     * Backend services/APIs - use purple/violet colors"),
      Chars("     * Database connections - use green colors"),
      Chars("     * External services - use orange colors"),
      Chars("     * Data flow between ALL components with labeled arr"
            \o "ows"),
      Chars("   - **Styling Requirements:**"),
      Chars("     * Use ^style NodeName fill:#COLOR,stroke:#DARKER_CO"
            \o "LOR,color:#fff^"),
      Chars("     * Different colors for different layers (Frontend, "
            \o "Backend, Database, etc.)"),
      Chars("     * Make it look professional and visually appealing"),
      Chars("     * Use shapes: ^[]^ boxes, ^()^ rounded, ^{}^ diamon"
            \o "ds, ^[()]^ stadium, ^[(DB)]^ database"),
      Chars("   - Example structure (use proper mermaid code blocks i"
            \o "n output):"),
      Chars("     * Start with flowchart TD or graph TB"),
      Chars("     * Define nodes with shapes and labels"),
      Chars("     * Connect with arrows and labels"),
      Chars("     * Add style definitions for each node with colors"),
      Chars("     * Use colors: Green for start/end, Blue for fronten"
            \o "d, Purple for backend, Orange for processing, Cyan for l"
            \o "ogic, Red for errors, Teal for databases"),
      Chars("   - Adapt the diagram based on detected technologies"),
      Chars("   - Include ALL major components from the tech stack"),
      Chars("   - Make it look like a professional architecture diagr"
            \o "am with colors!"),
      <<>>,
      Chars("6. **Project Structure**:"),
      Chars("   - Create a beautiful file tree using proper ASCII art"),
      Chars("   - Use the actual top-level structure provided"),
      Chars("   - Add comments explaining key directories"),
      Chars("   - Format it properly with ~~~~~~~~~, ~~~~~~~~~, and ~"
            \o "~~ characters"),
      <<>>,
      Chars("7. **Installation**:"),
      Chars("   - Provide step-by-step installation instructions"),
      Chars("   - Use the detected package manifests to generate accu"
            \o "rate commands"),
      Chars("   - Include prerequisites"),
      Chars("   - Add code blocks with proper syntax highlighting"),
      <<>>,
      Chars("8. **Usage**:"),
      Chars("   - Provide clear usage examples"),
      Chars("   - Include code snippets"),
      Chars("   - Add screenshots placeholders if applicable"),
      <<>>,
      Chars("9. **API Documentation** (if backend detected):"),
      Chars("   - Document main API endpoints"),
      Chars("   - Include request/response examples"),
      <<>>,
      Chars("10. **Contributing**:"),
      Chars("    - Standard contributing guidelines"),
      Chars("    - Code of conduct mention"),
      Chars("    - How to submit PRs"),
      <<>>,
      Chars("11. **License**:"),
      Chars("    - License information placeholder"),
      <<>>,
      Chars("12. **Contact/Support**:"),
      Chars("    - Links to issues, discussions"),
      Chars("    - Maintainer information"),
      <<>>,
      Chars("FORMATTING REQUIREMENTS:"),
      Chars("- Use proper markdown syntax throughout"),
      Chars("- **CRITICAL**: Use official technology badges/icons for"
            \o " Tech Stack section (NOT emojis!)"),
      Chars("- **CRITICAL**: Include a BEAUTIFUL, STYLED, COLORED Mer"
            \o "maid architecture diagram (REQUIRED!)"),
      Chars("- **CRITICAL**: Architecture diagram MUST have style def"
            \o "initions with colors (see examples above)"),
      Chars("- Use emojis for other sections (~~~~ ~~~~ ~~~~ ~~~~ ~~~"
            \o "~ etc.) but NOT for technologies"),
      Chars("- Use code blocks with language tags"),
      Chars("- Mermaid diagrams MUST use:"),
      Chars("  * Proper syntax: ^^^mermaid at start and ^^^ at end"),
      Chars("  * ^flowchart TD^ or ^graph TB^ for best visual renderi"
            \o "ng"),
      Chars("  * Style definitions: ^style NodeName fill:#COLOR,strok"
            \o "e:#DARKER,color:#fff^"),
      Chars("  * Descriptive labels with ^<br/>^ for line breaks"),
      Chars("  * Edge labels: ^-->|Label|^ for data flow description"),
      Chars("  * Different colors for different layers (Frontend=blue"
            \o ", Backend=purple, DB=green, etc.)"),
      Chars("- Create tables where appropriate"),
      Chars("- Add horizontal rules (---) to separate major sections"),
      Chars("- Use blockquotes for important notes"),
      Chars("- Make it visually appealing and easy to scan"),
      Chars("- Ensure all technology badges use the shields.io format"
            \o " with official logos"),
      Chars("- Architecture diagram should be comprehensive, colorful"
            \o ", and professional-looking"),
      <<>>,
      Chars("Generate ONLY the markdown content. Make it professional"
            \o ", beautiful, and comprehensive with a STUNNING visual ar"
            \o "chitecture diagram!"),
      <<>>>>

\* generator.py:127-131
tone_instructions ==
    <<<<"professional", Chars("Use a professional, technical tone suitable for enterpri"
                \o "se documentation.")>>,
      <<"concise", Chars("Be brief and to-the-point. Use short sentences and bulle"
                \o "t points.")>>,
      <<"enthusiastic", Chars("Use an enthusiastic, engaging tone that excites develope"
                \o "rs about the project.")>>>>

\* generator.py:531-550, in the order of the dict.
tech_icons ==
    <<<<Chars("javascript"), Chars("~~~~ JavaScript")>>,
      <<Chars("typescript"), Chars("~~~~ TypeScript")>>,
      <<Chars("python"), Chars("~~~~ Python")>>,
      <<Chars("java"), Chars("~~~ Java")>>,
      <<Chars("go"), Chars("~~~~ Go")>>,
      <<Chars("rust"), Chars("~~~~ Rust")>>,
      <<Chars("ruby"), Chars("~~~~ Ruby")>>,
      <<Chars("php"), Chars("~~~~ PHP")>>,
      <<Chars("html"), Chars("~~~~ HTML")>>,
      <<Chars("css"), Chars("~~~~ CSS")>>,
      <<Chars("react"), Chars("~~~~~~ React")>>,
      <<Chars("vue"), Chars("~~~~ Vue.js")>>,
      <<Chars("node"), Chars("~~~~ Node.js")>>,
      <<Chars("flask"), Chars("~~~~~~~ Flask")>>,
      <<Chars("django"), Chars("~~~~ Django")>>,
      <<Chars("postgres"), Chars("~~~~ PostgreSQL")>>,
      <<Chars("mongo"), Chars("~~~~ MongoDB")>>,
      <<Chars("docker"), Chars("~~~~ Docker")>>>>

\* generator.py:592-601: the fixed text around the name in the diagram.
ARCH_LITS ==
    <<Chars("\n## ~~~~~~~ Architecture\n\n^^^mermaid\ngraph LR\n    A[Clie"
            \o "nt] -->|HTTP| B["),
      Chars("]\n    B -->|Process| C[Core Logic]\n    C -->|Response| A"
            \o "\n^^^\n")>>

\* generator.py:604-730: the fixed text before, between and after the fields
\* of the template.
README_LITS ==
    <<Chars("<div align=\"center\">\n\n# "),
      Chars("\n\n"),
      Chars("\n\n[![Stars](https://img.shields.io/badge/~~~_stars-"),
      Chars("-yellow)](https://github.com/"),
      Chars("/"),
      Chars(")\n[![Forks](https://img.shields.io/badge/~~~~_forks-"),
      Chars("-blue)](https://github.com/"),
      Chars("/"),
      Chars("/fork)\n[![License](https://img.shields.io/badge/~~~~_lic"
            \o "ense-MIT-green)](LICENSE)\n\n[View Demo](https://github.co"
            \o "m/"),
      Chars("/"),
      Chars(") ~~ [Report Bug](https://github.com/"),
      Chars("/"),
      Chars("/issues) ~~ [Request Feature](https://github.com/"),
      Chars("/"),
      Chars("/issues)\n\n</div>\n\n---\n\n## ~~~~ Table of Contents\n\n- [Abo"
            \o "ut](#about)\n- [Tech Stack](#tech-stack)\n- [Project Struc"
            \o "ture](#project-structure)\n- [Getting Started](#getting-s"
            \o "tarted)\n- [Usage](#usage)\n- [Contributing](#contributing"
            \o ")\n- [License](#license)\n\n---\n\n## ~~~~ About\n\n**"),
      Chars("** is maintained by **"),
      Chars("** and has gained **"),
      Chars(" stars** from the community.\n\nThis project leverages mod"
            \o "ern technologies to deliver a robust solution. With **"),
      Chars(" files** organized across multiple directories, it demon"
            \o "strates professional software architecture and best prac"
            \o "tices.\n\n---\n\n## ~~~~ Tech Stack\n\n"),
      Chars("\n\n---\n"),
      Chars("\n## ~~~~ Project Structure\n\n"),
      Chars("\n\n**Key Directories:**\n- Source code and main applicatio"
            \o "n logic\n- Configuration and build files\n- Documentation "
            \o "and resources\n\n---\n\n## ~~~~~~~ Getting Started\n\n### Prer"
            \o "equisites\n\nMake sure you have the following installed:\n-"
            \o " "),
      Chars("\n- Package manager ("),
      Chars(")\n\n### Installation\n\n^^^bash\n# Clone the repository\ngit "
            \o "clone "),
      Chars("\n\n# Navigate to project directory\ncd "),
      Chars("\n\n# Install dependencies\n"),
      Chars("\n^^^\n\n---\n\n## ~~~~ Usage\n\n^^^bash\n# Run the application\n"
            \o "# Check the documentation for specific commands\n^^^\n\nFor"
            \o " detailed usage instructions, please refer to the [docum"
            \o "entation](https://github.com/"),
      Chars("/"),
      Chars("/wiki).\n\n---\n\n## ~~~~ Contributing\n\nContributions are wh"
            \o "at make the open source community amazing! Any contribut"
            \o "ions you make are **greatly appreciated**.\n\n1. Fork the "
            \o "Project\n2. Create your Feature Branch (^git checkout -b "
            \o "feature/AmazingFeature^)\n3. Commit your Changes (^git co"
            \o "mmit -m 'Add some AmazingFeature'^)\n4. Push to the Branc"
            \o "h (^git push origin feature/AmazingFeature^)\n5. Open a P"
            \o "ull Request\n\n---\n\n## ~~~~ License\n\nDistributed under the"
            \o " MIT License. See ^LICENSE^ for more information.\n\n---\n\n"
            \o "## ~~~~ Links\n\n- **Repository**: ["),
      Chars("/"),
      Chars("]("),
      Chars(")\n- **Issues**: [Report a bug](https://github.com/"),
      Chars("/"),
      Chars("/issues)\n- **Discussions**: [Join the conversation](http"
            \o "s://github.com/"),
      Chars("/"),
      Chars("/discussions)\n\n---\n\n## ~~~ Show Your Support\n\nGive a ~~~"
            \o "~~~ if this project helped you!\n\n---\n\n<div align=\"center"
            \o "\">\n\n**[~~~ back to top](#"),
      Chars(")**\n\nMade with ~~~~~~ by ["),
      Chars("](https://github.com/"),
      Chars(")\n\n</div>\n")>>

\* dict.get(tone, tone_instructions['professional'])
ToneInstruction(tone) ==
    IF \E i \in DOMAIN tone_instructions : tone_instructions[i][1] = tone
    THEN tone_instructions[CHOOSE i \in DOMAIN tone_instructions :
                             tone_instructions[i][1] = tone][2]
    ELSE tone_instructions[1][2]

\* generator.py:110-410.  The analysis holds detected_stack and
\* package_manifests as the lists they are when the prompt is built.  The
\* prompt is given as the list of its lines, prompt.split('\n').
build_prompt(analysis, tone) ==
    LET meta == analysis.repo_meta
        tree_summary == analysis.file_tree_summary
        sorted_langs == SortedDesc(analysis.languages)
        top == SubSeq(sorted_langs, 1, Min2(5, Len(sorted_langs)))
        languages_text ==
            Join([i \in DOMAIN top |->
                    Chars("- ") \o Chars(top[i][1]) \o Chars(": ")
                    \o FormatPct(top[i][2]) \o Chars("%")], <<LF>>)
        tech_stack_text ==
            IF analysis.detected_stack # <<>>
            THEN Join([i \in DOMAIN analysis.detected_stack |->
                         Chars(analysis.detected_stack[i])], Chars(", "))
            ELSE Chars("Not detected")
        manifests_text ==
            IF analysis.package_manifests # <<>>
            THEN Join(analysis.package_manifests, Chars(", "))
            ELSE Chars("None")
        structure == tree_summary.top_level_structure
        file_structure_text ==
            Join(SubSeq(structure, 1, Min2(20, Len(structure))), <<LF>>)
        hints_text ==
            Join([i \in DOMAIN analysis.hints |-> Chars(analysis.hints[i])], <<LF>>)
        head == Interleave(PROMPT_LITS,
                           <<meta.name, meta.owner, meta.description,
                             DecStr(meta.stars), DecStr(meta.forks), meta.url,
                             languages_text, tech_stack_text, manifests_text,
                             file_structure_text, DecStr(tree_summary.total_files),
                             DecStr(tree_summary.total_dirs), DecStr(tree_summary.max_depth),
                             hints_text, ToneInstruction(tone)>>)
    IN SplitOn(head, LF) \o Tail(PROMPT_TAIL_LINES)

\* generator.py:506-510: the names on the lines that follow line i.
LanguagesAfter(lines, i) ==
    LET n == Min2(i + 5, Len(lines)) - i
        lang(l) == Strip(RemoveChar(SplitOn(Strip(l), ":")[1], "-"))
        found == [k \in 1..n |->
                    IF StartsWith(Strip(lines[i + k]), <<"-">>)
                    THEN lang(lines[i + k]) ELSE <<>>]
    IN SelectSeq(found, LAMBDA x : x # <<>>)

\* generator.py:519-524: the lines from j to hi, up to the first that is
\* blank or starts the statistics.
RECURSIVE StructureLines(_, _, _)
StructureLines(lines, j, hi) ==
    IF j > hi THEN <<>>
    ELSE LET l == Strip(lines[j])
         IN IF l # <<>> /\ ~StartsWith(l, Chars("PROJECT"))
            THEN <<l>> \o StructureLines(lines, j + 1, hi)
            ELSE <<>>

\* t.strip() for each t of line.split(',')
CommaList(line) ==
    LET parts == SplitOn(line, ",") IN [k \in DOMAIN parts |-> Strip(parts[k])]

\* generator.py:485-529: the markers of the loop's if-chain in its order,
\* each with the variable its branch sets.
MARKERS ==
    <<<<Chars("- Name:"), "repo_name">>,
      <<Chars("- Owner:"), "owner">>,
      <<Chars("- Description:"), "description">>,
      <<Chars("- Stars:"), "stars">>,
      <<Chars("- Forks:"), "forks">>,
      <<Chars("- URL:"), "url">>,
      <<Chars("PROGRAMMING LANGUAGES:"), "languages">>,
      <<Chars("DETECTED TECH STACK:"), "tech_stack">>,
      <<Chars("PACKAGE MANIFESTS FOUND:"), "manifests">>,
      <<Chars("FILE STRUCTURE (Top Level):"), "file_structure">>,
      <<Chars("- Total Files:"), "total_files">>>>

\* The branch a stripped line takes, under the name of the variable the
\* branch sets: the first whose marker the line holds; the branches that
\* read the next line are not taken by the last line.
BranchOf(line, final) ==
    LET taken == {k \in DOMAIN MARKERS :
                    /\ Contains(line, MARKERS[k][1])
                    /\ MARKERS[k][2] \in {"tech_stack", "manifests"} => ~final}
    IN IF taken = {} THEN "none"
       ELSE MARKERS[CHOOSE k \in taken : \A j \in taken : k <= j][2]

LineKinds(lines) ==
    [i \in DOMAIN lines |-> BranchOf(Strip(lines[i]), i = Len(lines))]

\* The lines that take the branch of `kind`.
LinesOf(kinds, kind) ==
    SelectSeq([i \in DOMAIN kinds |-> i], LAMBDA i : kinds[i] = kind)

LastOr(values, default) == IF values = <<>> THEN default ELSE values[Len(values)]

\* line.split(':', 1)[1].strip() of the last of the lines `at`
TextOf(lines, at, default) ==
    IF at = <<>> THEN default
    ELSE Strip(AfterFirst(Strip(lines[at[Len(at)]]), ":"))

\* int(...) inside try: a text that is no number leaves the variable.
NumberOf(texts) ==
    LastOr(SelectSeq([k \in DOMAIN texts |-> ParseInt(texts[k])],
                     LAMBDA v : v # None), Some(0))[1]

\* The list on the line after a marker, unless that line is blank or
\* `none`.
ListOf(lines, at, none) ==
    LET given == SelectSeq([k \in DOMAIN at |-> Strip(lines[at[k] + 1])],
                           LAMBDA l : l # <<>> /\ l # none)
    IN IF given = <<>> THEN <<>> ELSE CommaList(given[Len(given)])

\* generator.py:471-529: what the loop over the lines leaves in its
\* variables.  A variable that is assigned holds what the last line that
\* assigns it gives, a list that is appended to holds what all its lines
\* give, in their order.
ParsedAs(lines, kinds) ==
    [repo_name |-> TextOf(lines, LinesOf(kinds, "repo_name"), Chars("Repository")),
     owner |-> TextOf(lines, LinesOf(kinds, "owner"), Chars("owner")),
     description |-> TextOf(lines, LinesOf(kinds, "description"), <<>>),
     stars |->
        NumberOf([k \in DOMAIN LinesOf(kinds, "stars") |->
                    TextOf(lines, <<LinesOf(kinds, "stars")[k]>>, <<>>)]),
     forks |->
        NumberOf([k \in DOMAIN LinesOf(kinds, "forks") |->
                    TextOf(lines, <<LinesOf(kinds, "forks")[k]>>, <<>>)]),
     url |-> TextOf(lines, LinesOf(kinds, "url"), <<>>),
     languages |->
        Concat([k \in DOMAIN LinesOf(kinds, "languages") |->
                  LanguagesAfter(lines, LinesOf(kinds, "languages")[k])]),
     tech_stack |-> ListOf(lines, LinesOf(kinds, "tech_stack"), Chars("Not detected")),
     manifests |-> ListOf(lines, LinesOf(kinds, "manifests"), Chars("None")),
     file_structure |->
        Concat([k \in DOMAIN LinesOf(kinds, "file_structure") |->
                  StructureLines(lines, LinesOf(kinds, "file_structure")[k] + 1,
                                 Min2(LinesOf(kinds, "file_structure")[k] + 14,
                                      Len(lines)))]),
     total_files |->
        NumberOf([k \in DOMAIN LinesOf(kinds, "total_files") |->
                    Strip(SplitOn(Strip(lines[LinesOf(kinds, "total_files")[k]]),
                                  ":")[2])])]

ParsePrompt(lines) == ParsedAs(lines, LineKinds(lines))

\* generator.py:553-561: the entry of the first key of tech_icons that the
\* lower-cased name holds, the name behind a wrench when it holds none.
TechIcon(tech) ==
    LET hits == {k \in DOMAIN tech_icons : Contains(StrLower(tech), tech_icons[k][1])}
    IN IF hits = {} THEN Chars("~~~~ ") \o tech
       ELSE tech_icons[CHOOSE k \in hits : \A j \in hits : k <= j][2]

\* generator.py:564-573
FileTree(repo_name, file_structure) ==
    LET shown == SubSeq(file_structure, 1, Min2(12, Len(file_structure)))
        prefix(i) == IF i = Len(shown) THEN Chars("~~~~~~~~~ ")
                     ELSE Chars("~~~~~~~~~ ")
    IN Join(<<Chars("^^^"), repo_name \o <<"/">>>>
            \o [i \in DOMAIN shown |-> prefix(i) \o shown[i]]
            \o (IF Len(file_structure) > 12
                THEN <<Chars("~~~~~~~~~ ...")>> ELSE <<>>)
            \o <<Chars("^^^")>>, <<LF>>)

\* generator.py:576-584
InstallCmds(manifests) ==
    LET any(name) == \E i \in DOMAIN manifests : Contains(manifests[i], name)
        cmds == (IF any(F_package_json) THEN <<Chars("npm install")>> ELSE <<>>)
             \o (IF any(F_requirements_txt)
                 THEN <<Chars("pip install -r requirements.txt")>> ELSE <<>>)
             \o (IF any(F_go_mod) THEN <<Chars("go mod download")>> ELSE <<>>)
    IN IF cmds = <<>> THEN <<Chars("# See documentation for installation")>>
       ELSE cmds

\* str(tech_stack) for names without quotes and backslashes
ListRepr(items) ==
    <<"[">> \o Join([i \in DOMAIN items |-> <<"'">> \o items[i] \o <<"'">>],
                    Chars(", ")) \o <<"]">>

\* generator.py:587-601
ArchDiagram(repo_name, tech_stack) ==
    LET shown == StrLower(ListRepr(tech_stack))
        has_frontend == \E t \in {"react", "vue", "html", "angular"} :
                           Contains(shown, Chars(t))
        has_backend == \E t \in {"flask", "django", "express", "node"} :
                          Contains(shown, Chars(t))
    IN IF has_frontend \/ has_backend
       THEN ARCH_LITS[1] \o repo_name \o ARCH_LITS[2]
       ELSE <<>>

\* generator.py:458-732: the template filled from the lines of the prompt.
_generate_enhanced_template(lines) ==
    LET p == ParsePrompt(lines)
        techs == p.tech_stack \o p.languages
        tech_list == [i \in DOMAIN techs |-> TechIcon(techs[i])]
        tech_text ==
            Join([i \in 1..Min2(10, Len(tech_list)) |-> Chars("- ") \o tech_list[i]],
                 <<LF>>)
        tree_text == FileTree(p.repo_name, p.file_structure)
        install_text == Join(InstallCmds(p.manifests), <<LF>>)
        arch_diagram == ArchDiagram(p.repo_name, p.tech_stack)
        about ==
            IF p.description # <<>> THEN p.description
            ELSE Chars("A powerful ")
                 \o (IF p.languages # <<>> THEN p.languages[1] ELSE Chars("software"))
                 \o Chars(" project")
        runtime ==
            IF p.languages # <<>> THEN p.languages[1] ELSE Chars("Required runtime")
        package_manager ==
            IF p.manifests # <<>> THEN p.manifests[1] ELSE Chars("see documentation")
        repo_url ==
            IF p.url # <<>> THEN p.url
            ELSE Chars("https://github.com/") \o p.owner \o <<"/">> \o p.repo_name
        clone_url == IF p.url # <<>> THEN p.url ELSE repo_url \o DOT_GIT
    IN Interleave(README_LITS,
                   <<p.repo_name, about, DecStr(p.stars), p.owner,
                     p.repo_name, DecStr(p.forks), p.owner, p.repo_name,
                     p.owner, p.repo_name, p.owner, p.repo_name, p.owner,
                     p.repo_name, p.repo_name, p.owner, DecStr(p.stars),
                     DecStr(p.total_files), tech_text, arch_diagram,
                     tree_text, runtime, package_manager, clone_url,
                     p.repo_name, install_text, p.owner, p.repo_name,
                     p.owner, p.repo_name, repo_url, p.owner, p.repo_name,
                     p.owner, p.repo_name, StrLower(p.repo_name), p.owner,
                     p.owner>>)

\* generator.py:987-1009
format_markdown(content) ==
    LET lines == SplitOn(content, LF)
        header(l) == StartsWith(l, <<"#">>)
        formatted(i) ==
            IF header(lines[i]) /\ i < Len(lines)
               /\ lines[i + 1] # <<>> /\ ~header(lines[i + 1])
            THEN <<lines[i], <<>>>> ELSE <<lines[i]>>
    IN Join(Concat([i \in DOMAIN lines |-> formatted(i)]), <<LF>>)

\* The body of a chat completion as _call_groq_api reads it: shape tells
\* how far result['choices'][0]['message']['content'] exists, content is
\* the text when it is a str, repr is str(result).
Completion(shape, content, repr) ==
    [shape |-> shape, content |-> content, repr |-> repr]

\* A failure of requests.post that is neither a timeout nor a connection
\* error.
RequestFailure(text) ==
    [kind |-> "request", status |-> 0, text |-> text, remaining |-> None,
     json |-> None]

\* generator.py:76-86: the message for a status other than 200.
StatusMessage(resp) ==
    IF resp.status = 429
    THEN Chars("Groq API rate limit exceeded. Please wait a few minutes and try again.")
    ELSE IF resp.status = 401
    THEN Chars("Groq API key is invalid or expired. Please check your API key.")
    ELSE IF resp.status = 403
    THEN Chars("Groq API access forbidden. Please check your API key permissions.")
    ELSE Chars("Groq API returned ") \o DecStr(resp.status) \o Chars(": ") \o resp.text

\* generator.py:33-108 with the key of generator.py:25.  The errors raised
\* inside the try for a status or for missing choices are caught by its last
\* handler and wrapped once more.  A body that is not JSON raises the
\* decoder's error, a RequestException or a plain ValueError with the
\* version of requests.
_call_groq_api(key, resp) ==
    IF key = <<>> THEN {GeneratorError(Chars("Groq API key not configured"))}
    ELSE IF resp.kind = "timeout"
    THEN {GeneratorError(Chars("Groq API request timed out after 60 seconds"))}
    ELSE IF resp.kind = "connection"
    THEN {GeneratorError(
            Chars("Failed to connect to Groq API. Check your internet connection."))}
    ELSE IF resp.kind = "request"
    THEN {GeneratorError(Chars("Groq API request failed: ") \o resp.text)}
    ELSE IF resp.status # 200
    THEN {GeneratorError(Chars("Groq API error: ") \o StatusMessage(resp))}
    ELSE IF resp.json = None
    THEN {GeneratorError(Chars("Groq API request failed: ") \o resp.text),
          GeneratorError(Chars("Groq API error: ") \o resp.text)}
    ELSE LET result == resp.json[1]
         IN IF result.shape \in {"no choices", "empty choices"}
            THEN {GeneratorError(
                    Chars("Groq API error: Groq API returned unexpected response structure: ")
                    \o result.repr)}
            ELSE IF result.shape = "no message"
            THEN {GeneratorError(
                    Chars("Groq API response missing expected field: 'message'"))}
            ELSE IF result.shape = "no content"
            THEN {GeneratorError(
                    Chars("Groq API response missing expected field: 'content'"))}
            ELSE IF result.shape = "null content"
            THEN {GeneratorError(
                    Chars("Groq API error: object of type 'NoneType' has no len()"))}
            ELSE IF result.shape = "list content" THEN {Ok(NonStr)}
            ELSE {Ok(Str(result.content))}

\* One run of invoke_ai_model: the requests posted to the generation
\* service and how the run ends.
Run(posts, result) == [posts |-> posts, result |-> result]

\* invoke_ai_model falling back to the template under 'Llama 3' as it does
\* under 'Auto'.
invoke_ai_model_silent(lines, model, key, resp) ==
    LET template == Run(<<>>, Ok(Str(_generate_enhanced_template(lines))))
        fallback == Run(<<resp>>, Ok(Str(_generate_enhanced_template(lines))))
    IN IF model \in {"Llama 3", "Auto"} /\ key # <<>>
       THEN {IF r.ok THEN Run(<<resp>>, r) ELSE fallback :
               r \in _call_groq_api(key, resp)}
       ELSE {template}

\* generator.py:420-456
invoke_ai_model(lines, model, key, resp) ==
    LET template == Run(<<>>, Ok(Str(_generate_enhanced_template(lines))))
        fallback == Run(<<resp>>, Ok(Str(_generate_enhanced_template(lines))))
    IN IF model = "Llama 3" /\ key # <<>>
       THEN {Run(<<resp>>, r) : r \in _call_groq_api(key, resp)}
       ELSE IF model = "Auto" /\ key # <<>>
       THEN {IF r.ok THEN Run(<<resp>>, r) ELSE fallback :
               r \in _call_groq_api(key, resp)}
       ELSE {template}

\* generator.py:1011-1043
generate_readme(analysis, tone, model, key, resp) ==
    LET failed == Chars("Failed to generate README: ")
        finish(r) ==
            IF ~r.ok THEN GeneratorError(failed \o r.msg)
            ELSE IF ~r.value.isstr
            THEN GeneratorError(
                   failed \o Chars("'list' object has no attribute 'split'"))
            ELSE Ok(format_markdown(r.value.chars))
    IN {Run(run.posts, finish(run.result)) :
          run \in invoke_ai_model(build_prompt(analysis, tone), model, key, resp)}

(***************************************************************************)
(* generate_readme on its own: an analysis, a tone, a model selector, the  *)
(* key of the generation service and the service's answer are drawn, the   *)
(* README is generated once.                                               *)
(***************************************************************************)
GEN_REPO == Chars("Zq9")
GEN_OWNER == Chars("kx")

GenMetas ==
    {RepoMetadata(GEN_REPO, GEN_OWNER, <<>>, 0, 0, MAIN_BRANCH,
                  HtmlUrl(GEN_OWNER, GEN_REPO)),
     RepoMetadata(GEN_REPO, GEN_OWNER, Chars("A small tool"), 12, 3, DEV_BRANCH,
                  HtmlUrl(GEN_OWNER, GEN_REPO))}

TREE_DJANGO == <<Entry(Chars("src/django_site.py"), "blob")>>
TREE_VUE == <<Entry(F_package_json, "blob"), Entry(Chars("web/App.vue"), "blob")>>
TREE_MAVEN == <<Entry(F_pom_xml, "blob"), Entry(Chars("docs"), "tree")>>
TREE_WIDE ==
    [i \in 1..13 |-> Entry(<<"f", LowerCase[i]>>, "blob")]

GenTrees == {<<>>, TREE_A, TREE_DJANGO, TREE_VUE, TREE_MAVEN, TREE_WIDE}

GenLanguages ==
    {<<>>,
     LanguagePercentages(LangBody(TRUE, <<<<"Python", 3>>, <<"HTML", 1>>>>)),
     LanguagePercentages(LangBody(TRUE, <<<<"C", 1>>, <<"Go", 2>>>>))}

\* The sequences that list each element of S once.
Orders(S) ==
    {s \in [1..Cardinality(S) -> S] : \A i, j \in DOMAIN s : i # j => s[i] # s[j]}

\* analyzer.py:173 and 227: list(set(...)) fixes an order of its own for
\* the manifests and for the stack.
Listed(a) ==
    {[a EXCEPT !.detected_stack = stack, !.package_manifests = manifests] :
        stack \in Orders(a.detected_stack), manifests \in Orders(a.package_manifests)}

GenAnalyses ==
    UNION {Listed(AnalysisResult(m, l, t, 0)) :
             m \in GenMetas, l \in GenLanguages, t \in GenTrees}

GROQ_KEY == Chars("gsk")
GENERATED == Chars("# Zq9\nGenerated text\n")

Completions ==
    {Completion("content", GENERATED, <<>>),
     Completion("content", <<>>, <<>>),
     Completion("list content", <<>>, <<>>),
     Completion("null content", <<>>, <<>>),
     Completion("no content", <<>>, <<>>),
     Completion("no message", <<>>, <<>>),
     Completion("empty choices", <<>>, Chars("{'choices': []}")),
     Completion("no choices", <<>>, Chars("{'error': 'busy'}"))}

GroqResponses ==
    {Http(200, <<>>, None, Some(c)) : c \in Completions}
    \cup {Http(200, NOT_JSON_TEXT, None, None),
          Http(429, RATE_TEXT, None, None),
          Http(401, <<>>, None, None),
          Http(403, FORBIDDEN_TEXT, None, None),
          Http(500, Chars("busy"), None, None),
          TimeoutResp,
          ConnectionResp(CONNECTION_TEXT),
          RequestFailure(Chars("Exceeded 30 redirects."))}

Models == {"Auto", "Llama 3", "Gemini"}
Tones == {"concise", "casual"}

GenInput(analysis, tone, model, key, resp) ==
    [op |-> "generate_readme", analysis |-> analysis, tone |-> tone,
     model |-> model, key |-> key, resp |-> resp]

\* Without a key no answer is ever read: one of them stands for all.
GenInputs ==
    {GenInput(a, "concise", m, <<>>, TimeoutResp) : a \in GenAnalyses, m \in Models}
    \cup {GenInput(a, t, m, k, r) :
            a \in Listed(AnalysisResult(CHOOSE x \in GenMetas : x.stars = 12,
                                        <<>>, TREE_DJANGO, 0)),
            t \in Tones, m \in Models, k \in {<<>>, GROQ_KEY}, r \in GroqResponses}

GenInit ==
    /\ fin \in GenInputs
    /\ fout = None
    /\ CacheIdle /\ UrlIdle /\ TreeIdle /\ AppIdle

GenerateReadme ==
    /\ fin.op = "generate_readme"
    /\ fout = None
    /\ \E run \in generate_readme(fin.analysis, fin.tone, fin.model, fin.key, fin.resp) :
          fout' = Some(run)
    /\ UNCHANGED <<fin, urlVars, cacheVars, treeVars, appVars>>

GenNext == GenerateReadme

SpecGen == GenInit /\ [][GenNext]_vars

\* One generation has run: its input and what it gave.
Generated == fin.op = "generate_readme" /\ fout # None

\* C14: with no generation key configured and the model selector 'Auto',
\* generate_readme on an analysis with a non-empty stack posts nothing to the
\* generation service and returns a non-empty text that holds the repository
\* name and at least one label of analysis.detected_stack.
C14_TemplateFallback ==
    (Generated /\ fin.key = <<>> /\ fin.model = "Auto"
     /\ fin.analysis.detected_stack # <<>>)
    => /\ fout[1].posts = <<>>
       /\ fout[1].result.ok
       /\ fout[1].result.value # <<>>
       /\ Contains(fout[1].result.value, fin.analysis.repo_meta.name)
       /\ \E i \in DOMAIN fin.analysis.detected_stack :
             Contains(fout[1].result.value, Chars(fin.analysis.detected_stack[i]))

\* The generation service's answer is a failure of the call: no status 200
\* with a content under choices[0].message.
CallFails(resp) ==
    ~(/\ resp.kind = "http"
      /\ resp.status = 200
      /\ resp.json # None
      /\ resp.json[1].shape \in {"content", "list content"})

\* What tells one failure of the call from the others.
FailureReason(resp) ==
    IF resp.kind = "timeout" THEN Chars("timed out")
    ELSE IF resp.kind = "connection" THEN Chars("Failed to connect")
    ELSE IF resp.kind = "request" THEN resp.text
    ELSE IF resp.status = 429 THEN Chars("rate limit")
    ELSE IF resp.status = 401 THEN Chars("invalid")
    ELSE IF resp.status = 403 THEN Chars("forbidden")
    ELSE IF resp.status # 200 THEN DecStr(resp.status)
    ELSE IF resp.json = None THEN resp.text
    ELSE IF resp.json[1].shape \in {"no choices", "empty choices"}
    THEN Chars("unexpected response structure")
    ELSE IF resp.json[1].shape = "no message" THEN Chars("'message'")
    ELSE IF resp.json[1].shape = "no content" THEN Chars("'content'")
    ELSE Chars("NoneType")

\* C15: no generation posts more than one request.  When the request fails,
\* under 'Auto' the generation returns the text of the template, the one it
\* returns without a key, and raises nothing; under 'Llama 3' it raises
\* GeneratorError with the reason of the failure and returns no text.
C15_FailurePolicy ==
    Generated =>
       /\ Len(fout[1].posts) <= 1
       /\ (fin.key # <<>> /\ CallFails(fin.resp) /\ fin.model = "Auto")
          => /\ fout[1].posts = <<fin.resp>>
             /\ fout[1].result =
                  Ok(format_markdown(
                       _generate_enhanced_template(build_prompt(fin.analysis, fin.tone))))
       /\ (fin.key # <<>> /\ CallFails(fin.resp) /\ fin.model = "Llama 3")
          => /\ fout[1].posts = <<fin.resp>>
             /\ ~fout[1].result.ok
             /\ fout[1].result.exc = "GeneratorError"
             /\ Contains(fout[1].result.msg, FailureReason(fin.resp))

C15_Witness ==
    /\ Generated
    /\ fin.key # <<>> /\ fin.model = "Auto"
    /\ fin.resp.kind = "http" /\ fin.resp.status = 429
    /\ fout[1].result.ok
    /\ Contains(fout[1].result.value, Chars("## ~~~~ Tech Stack"))

C15_WitnessForced ==
    /\ Generated
    /\ fin.key # <<>> /\ fin.model = "Llama 3"
    /\ fin.resp.kind = "timeout"
    /\ ~fout[1].result.ok

(***************************************************************************)
(* The analyze endpoint: what a request's calls and outcome show.          *)
(***************************************************************************)
\* The remote calls sit at fixed places of a request's call list, after the
\* validation and the cache lookup: metadata third, tree fourth, languages
\* fifth.

Issued(i, name) == Len(calls) >= i /\ calls[i].call = name
CallNames == [i \in DOMAIN calls |-> calls[i].call]
CacheKey == generate_key(req.repo_url[1].chars)

\* The metadata call failed: no answer, an error status, or a body that is
\* not the JSON object of a repository.
MetaFailed(resp) ==
    \/ resp.kind # "http"
    \/ resp.status # 200
    \/ resp.json = None
    \/ resp.json[1].name = None

\* C6: when the metadata fetch fails, the request ends with that failure
\* (REPO_NOT_FOUND, status 404, for an HTTP 404) and no analysis; neither the
\* file tree nor the languages are fetched, and the cache stays as the lookup
\* left it.
C6_FailFast ==
    (Issued(3, "fetch_repo_metadata") /\ MetaFailed(calls[3].resp)) =>
        /\ pc = "done"
        /\ outcome # None
        /\ outcome[1].status # 200
        /\ (calls[3].resp.kind = "http" /\ calls[3].resp.status = 404)
              => (outcome[1].code = "REPO_NOT_FOUND" /\ outcome[1].status = 404)
        /\ CallNames = <<"validate_github_url", "get_cached_analysis",
                         "fetch_repo_metadata">>
        /\ cache = req.cache0

C6_Witness ==
    /\ Issued(3, "fetch_repo_metadata")
    /\ calls[3].resp.kind = "http"
    /\ calls[3].resp.status = 404
    /\ outcome # None
    /\ outcome[1].status = 404
    /\ cache # EmptyMap

\* The tree response is marked truncated.
Truncated(resp) ==
    /\ resp.kind = "http"
    /\ resp.json # None
    /\ resp.json[1].truncated = Some(TRUE)

\* C7: whenever the tree response has truncated = true the request fails
\* with REPO_TOO_LARGE whatever metadata was fetched; the languages are not
\* fetched and nothing is returned or cached from the partial listing.
C7_Truncated ==
    (Issued(4, "fetch_file_tree") /\ Truncated(calls[4].resp)) =>
        /\ pc = "done"
        /\ outcome # None
        /\ outcome[1].status = 413
        /\ outcome[1].code = "REPO_TOO_LARGE"
        /\ Len(calls) = 4
        /\ cache = req.cache0

C7_Witness ==
    /\ Issued(4, "fetch_file_tree")
    /\ Truncated(calls[4].resp)
    /\ calls[4].resp.json[1].tree # None
    /\ frame.repo_meta # None
    /\ frame.repo_meta[1].default_branch = MAIN_BRANCH
    /\ outcome # None
    /\ outcome[1].status = 413

\* The request found an analysis of its locator (up to letter case) stored
\* no longer than the TTL ago.
Memoized ==
    /\ req.endpoint = "analyze"
    /\ req.valid
    /\ req.memo # None
    /\ req.started <= req.memo[1].at + ttl

\* C8: after a successful analyze of a locator, a further analyze of it
\* (the same string up to letter case) within the TTL returns the stored
\* result, issues no metadata, tree or language fetch and writes nothing to
\* the cache: the entry and its expiry stay those of the first analyze.
C8_Memoization ==
    Memoized =>
        /\ pc = "done"
        /\ outcome = Some(OkResponse(to_dict(req.memo[1].result)))
        /\ CallNames = <<"validate_github_url", "get_cached_analysis">>
        /\ cache = req.cache0
        /\ CacheKey \in DOMAIN cache
        /\ cache[CacheKey] = [result |-> req.memo[1].result,
                              expiry_time |-> req.memo[1].at + ttl]

C8_Witness ==
    /\ Memoized
    /\ req.memo[1].locator # req.repo_url[1].chars
    /\ req.started > req.memo[1].at
    /\ outcome # None
    /\ outcome[1].status = 200
    /\ Len(calls) = 2

\* The language call failed: no answer, an error status, or a body that is
\* not a JSON object.
LangFailed(resp) ==
    \/ resp.kind # "http"
    \/ RaisesForStatus(resp)
    \/ resp.json = None
    \/ ~resp.json[1].isdict

\* C9: a failure of the language fetch of any kind does not abort the
\* analysis: the request succeeds with an empty language mapping and the
\* result is cached as any successful result is.
C9_LanguagesAbsorbed ==
    (Issued(5, "fetch_languages") /\ LangFailed(calls[5].resp)) =>
        /\ pc = "done"
        /\ outcome # None
        /\ outcome[1].status = 200
        /\ outcome[1].body.languages = <<>>
        /\ CallNames[Len(calls)] = "cache_analysis"
        /\ CacheKey \in DOMAIN cache
        /\ to_dict(cache[CacheKey].result) = outcome[1].body
        /\ cache[CacheKey].expiry_time = cache[CacheKey].result.cached_at + ttl

C9_Witness ==
    /\ Issued(5, "fetch_languages")
    /\ calls[5].resp.kind = "timeout"
    /\ outcome # None
    /\ outcome[1].status = 200
    /\ outcome[1].body.languages = <<>>
    /\ outcome[1].body.file_tree_summary.total_files > 0

(***************************************************************************)
(* The parser on its own: an argument is drawn, validate_github_url runs.  *)
(***************************************************************************)
MaxSlashes == 2

RECURSIVE Slashes(_)
Slashes(n) == IF n = 0 THEN <<>> ELSE <<"/">> \o Slashes(n - 1)

Leads == {<<>>, <<" ">>, <<"x">>}
Schemes == {<<>>, HTTP \o SCHEME_SEP, HTTP \o <<"s">> \o SCHEME_SEP,
            <<"f","t","p">> \o SCHEME_SEP, HTTP \o <<"s",":","/">>}
Hosts == {GITHUB_HOST,
          <<"g","i","t","h","u","b","X","c","o","m">>,
          <<"g","i","t","l","a","b",".","c","o","m">>}
OwnerSegs == {<<"a">>, <<"A","-","1">>, <<>>, <<"a",".","b">>}
RepoSegs == {<<"b">>, <<"B","_",".","c">>, <<>>, DOT_GIT, <<"b">> \o DOT_GIT,
             <<"b">> \o DOT_GIT \o DOT_GIT, <<"b","/","c">>, <<"b"," ","c">>}
RepoParts == {<<>>} \cup {<<"/">> \o r : r \in RepoSegs}
Pads == {<<>>, <<" ">>, <<LF>>}
Trails == {a \o Slashes(n) \o b : a \in Pads, n \in 0..MaxSlashes, b \in Pads}

UrlStrings ==
    {<<>>, <<" ">>}
    \cup {l \o s \o h \o <<"/">> \o o \o r \o t :
            l \in Leads, s \in Schemes, h \in Hosts, o \in OwnerSegs,
            r \in RepoParts, t \in Trails}

UrlInputs == {Str(cs) : cs \in UrlStrings} \cup {NonStr}

UrlInit ==
    url \in UrlInputs /\ vres = <<>> /\ CacheIdle /\ TreeIdle /\ AppIdle /\ FactIdle

Validate ==
    /\ vres = <<>>
    /\ vres' = <<validate_github_url(url)>>
    /\ UNCHANGED <<url, cacheVars, treeVars, factVars, appVars>>

UrlNext == Validate

SpecUrl == UrlInit /\ [][UrlNext]_vars

(***************************************************************************)
(* The locator grammar as the specification words it.                      *)
(***************************************************************************)
GrammarPrefixes == {p \o GITHUB_HOST \o <<"/">> :
                      p \in {<<>>, HTTP \o SCHEME_SEP, HTTP \o <<"s">> \o SCHEME_SEP}}

\* The (OWNER, segment) readings of t as [http(s)://]github.com/OWNER/segment.
GrammarReadings(t) ==
    {<<SubSeq(t, i + 1, j - 1), SubSeq(t, j + 1, Len(t))>> :
        <<i, j>> \in {<<i, j>> \in (0..Len(t)) \X (1..Len(t)) :
            /\ Take(t, i) \in GrammarPrefixes
            /\ i + 1 < j /\ j < Len(t)
            /\ t[j] = "/"
            /\ Range(SubSeq(t, i + 1, j - 1)) \subseteq OwnerClass
            /\ Range(SubSeq(t, j + 1, Len(t))) \subseteq RepoClass}}

WithoutGitSuffix(seg) ==
    IF EndsWith(seg, DOT_GIT) THEN Take(seg, Len(seg) - Len(DOT_GIT)) ELSE seg

GrammarResult(t) ==
    IF GrammarReadings(t) = {} THEN ValidationError
    ELSE LET g == CHOOSE g \in GrammarReadings(t) : TRUE
         IN Parsed(g[1], WithoutGitSuffix(g[2]))

\* Surrounding whitespace stripped, then at most one trailing '/'.
StripOneSlash(s) ==
    LET w == Strip(s) IN IF w # <<>> /\ w[Len(w)] = "/" THEN Front(w) ELSE w

\* Surrounding whitespace stripped, then every trailing '/', then one line
\* feed if that is what the string now ends with.
StripAllSlashes(s) ==
    LET w == RStripSet(Strip(s), {"/"})
    IN IF w # <<>> /\ w[Len(w)] = LF THEN Front(w) ELSE w

\* C1 as stated: (OWNER, NAME) exactly for the strings that have the form
\* after stripping whitespace and at most one trailing '/', and
\* ValidationError for every other argument, a non-string, the empty string
\* and a string with more than one trailing slash included.
C1_AsStated ==
    vres # <<>> =>
        vres[1] = IF url.isstr THEN GrammarResult(StripOneSlash(url.chars))
                  ELSE ValidationError

\* C1 amended: validate_github_url returns (OWNER, NAME) exactly for the
\* strings that have the form after stripping surrounding whitespace, then
\* every trailing '/', then one line feed left at the end; every other
\* argument fails with ValidationError.
C1_Parser ==
    vres # <<>> =>
        vres[1] = IF url.isstr THEN GrammarResult(StripAllSlashes(url.chars))
                  ELSE ValidationError

\* A locator with scheme, '.git' and two trailing slashes was parsed.
C1_Witness ==
    /\ vres = <<Parsed(<<"a">>, <<"b">>)>>
    /\ url.isstr
    /\ EndsWith(url.chars, <<"b">> \o DOT_GIT \o <<"/", "/">>)
    /\ StartsWith(url.chars, HTTP \o <<"s">>)

(***************************************************************************)
(* The analyze endpoint: the code a failure is reported under.             *)
(***************************************************************************)
\* The request has ended in the failure of its last call, a remote one.
FailedIn(name) ==
    /\ pc = "done"
    /\ outcome # None
    /\ outcome[1].status # 200
    /\ Len(calls) >= 3
    /\ calls[Len(calls)].call = name

\* The answer that made the request fail.
FailedResp == calls[Len(calls)].resp

\* The metadata answer is a 403 that is not about the rate limit.
AccessForbidden(resp) ==
    /\ resp.kind = "http"
    /\ resp.status = 403
    /\ resp.remaining = None
    /\ ~Contains(StrLower(resp.text), KW_RATE_LIMIT)

\* The causes whose code the endpoint does report: not-found, access
\* forbidden, invalid credential and a truncated tree.
CodesReported ==
    /\ FailedIn("fetch_repo_metadata") =>
          /\ (FailedResp.kind = "http" /\ FailedResp.status = 404)
                => (outcome[1].code = "REPO_NOT_FOUND" /\ outcome[1].status = 404)
          /\ AccessForbidden(FailedResp)
                => (outcome[1].code = "AUTH_REQUIRED" /\ outcome[1].status = 403)
          /\ (FailedResp.kind = "http" /\ FailedResp.status = 401)
                => (outcome[1].code = "INVALID_TOKEN" /\ outcome[1].status = 401)
    /\ FailedIn("fetch_file_tree") =>
          (Truncated(FailedResp)
                => (outcome[1].code = "REPO_TOO_LARGE" /\ outcome[1].status = 413))

\* C18: a request that fails is reported under the code of its cause:
\* not-found as REPO_NOT_FOUND, access forbidden as AUTH_REQUIRED, an invalid
\* credential as INVALID_TOKEN, a timeout of the metadata call or of the tree
\* call as TIMEOUT, a truncated tree as REPO_TOO_LARGE, and REPO_TOO_LARGE and
\* TIMEOUT for no other cause.
C18_OwnCodes ==
    /\ CodesReported
    /\ (FailedIn("fetch_repo_metadata") \/ FailedIn("fetch_file_tree")) =>
          /\ FailedResp.kind = "timeout" => outcome[1].code = "TIMEOUT"
          /\ outcome[1].code = "TIMEOUT" => FailedResp.kind = "timeout"
          /\ outcome[1].code = "REPO_TOO_LARGE" =>
                (FailedIn("fetch_file_tree") /\ Truncated(FailedResp))

\* The metadata call timed out and the request was answered ANALYZER_ERROR.
C18_MetadataTimeout ==
    /\ FailedIn("fetch_repo_metadata")
    /\ FailedResp.kind = "timeout"
    /\ outcome[1].code = "ANALYZER_ERROR"
    /\ outcome[1].status = 500

\* The tree call timed out and the request was answered REPO_TOO_LARGE.
C18_TreeTimeout ==
    /\ FailedIn("fetch_file_tree")
    /\ FailedResp.kind = "timeout"
    /\ outcome[1].code = "REPO_TOO_LARGE"
    /\ outcome[1].status = 413

\* No request is answered TIMEOUT.
C18_NeverTimeoutCode ==
    outcome # None => (outcome[1].status # 200 => outcome[1].code # "TIMEOUT")

(***************************************************************************)
(* The analyze endpoint: termination.                                      *)
(***************************************************************************)
RemoteCalls == {"fetch_repo_metadata", "fetch_file_tree", "fetch_languages"}

\* How many times the request has made the call.
TimesCalled(name) == Cardinality({i \in DOMAIN calls : calls[i].call = name})

\* The request waits in one of its remote calls.
InFlight == pc \in {"metadata", "tree", "languages"}

\* The fields of a complete analysis in a response (models.py to_dict).
ResultFields ==
    {"repo_meta", "languages", "file_tree_summary", "detected_stack",
     "package_manifests", "hints"}

\* The answer is one complete analysis or one error.
OneOutcome(r) ==
    IF r.status = 200
    THEN DOMAIN r = {"status", "body"} /\ DOMAIN r.body = ResultFields
    ELSE /\ DOMAIN r = {"status", "code", "message"}
         /\ r.code \in {"MISSING_FIELD", "INVALID_URL", "REPO_NOT_FOUND",
                        "AUTH_REQUIRED", "INVALID_TOKEN", "TIMEOUT",
                        "REPO_TOO_LARGE", "ANALYZER_ERROR", "INTERNAL_ERROR"}

\* No call is made twice, a request in flight has no answer yet and a
\* finished one has exactly one.
SingleShot ==
    /\ \A name \in RemoteCalls : TimesCalled(name) <= 1
    /\ Len(calls) <= 6
    /\ InFlight => outcome = None
    /\ pc = "done" => (outcome # None /\ OneOutcome(outcome[1]))

\* C19: when every remote call returns (with an answer or a timeout), a
\* request makes each of the metadata, tree and language calls at most once
\* and every request in flight ends, with one outcome: a complete analysis
\* or one error.
C19_Terminates ==
    /\ []SingleShot
    /\ \A n \in 1..MaxRequests :
          (req.seq = n /\ InFlight)
             ~> (req.seq = n /\ pc = "done" /\ outcome # None)

\* A second request ended with an analysis after its language call timed
\* out; it made the three calls once each.
C19_Witness ==
    /\ pc = "done"
    /\ req.seq = 2
    /\ \A name \in RemoteCalls : TimesCalled(name) = 1
    /\ calls[5].resp.kind = "timeout"
    /\ outcome # None
    /\ outcome[1].status = 200

(***************************************************************************)
(* The analyze endpoint: the order of a request's steps.                   *)
(***************************************************************************)
\* The steps of a request that runs to the end, in order.
FullOrder ==
    <<"validate_github_url", "get_cached_analysis", "fetch_repo_metadata",
      "fetch_file_tree", "fetch_languages", "cache_analysis">>

\* The tree answer is a listing that is not truncated.
TreeSucceeded(resp) ==
    /\ resp.kind = "http"
    /\ resp.status = 200
    /\ resp.json # None
    /\ resp.json[1].truncated # Some(TRUE)

\* The branch named by a metadata answer, 'main' when it names none.
BranchOfAnswer(resp) ==
    IF resp.json[1].default_branch = None THEN MAIN_BRANCH
    ELSE resp.json[1].default_branch[1]

\* What the call list of a request shows at any moment.
InOrder ==
    /\ Len(calls) <= Len(FullOrder)
    /\ CallNames = SubSeq(FullOrder, 1, Len(calls))
    /\ Issued(2, "get_cached_analysis") =>
          /\ req.valid
          /\ calls[1].arg = req.repo_url[1]
          /\ calls[2].arg = req.repo_url[1].chars
    /\ Issued(3, "fetch_repo_metadata") => CacheKey \notin DOMAIN req.cache0
    /\ Issued(4, "fetch_file_tree") =>
          /\ ~MetaFailed(calls[3].resp)
          /\ calls[4].arg = BranchOfAnswer(calls[3].resp)
    /\ Issued(5, "fetch_languages") => TreeSucceeded(calls[4].resp)
    /\ Issued(6, "cache_analysis") =>
          /\ calls[6].arg = req.repo_url[1].chars
          /\ pc = "done"
    /\ (req.seq > 0 /\ ~req.valid) => Len(calls) <= 1

\* What a step does to the call list and, for an invalid locator, to the
\* cache: a request's list only grows at its end, and a request with an
\* invalid locator leaves the cache and its history alone.
StepInOrder ==
    /\ req' = req =>
          (Len(calls') >= Len(calls) /\ SubSeq(calls', 1, Len(calls)) = calls)
    /\ (req' # req /\ ~req'.valid) =>
          (cache' = cache /\ hist' = hist /\ pc' = "done")

\* C20: a request validates the locator, then asks the cache, then fetches
\* the metadata, then the tree on the branch the metadata named, then the
\* languages, then stores the result; no step starts before the one before
\* it has succeeded, and an invalid locator leads to no cache access and no
\* remote call.
C20_Ordering == []InOrder /\ [][StepInOrder]_vars

\* A request ran to the end on a branch other than 'main'.
C20_Witness ==
    /\ CallNames = FullOrder
    /\ calls[4].arg = DEV_BRANCH
    /\ calls[4].arg # MAIN_BRANCH
    /\ pc = "done"

\* A request with an invalid locator ended while the cache held an entry.
C20_WitnessInvalid ==
    /\ pc = "done"
    /\ req.seq = 2
    /\ ~req.valid
    /\ CallNames = <<"validate_github_url">>
    /\ cache # EmptyMap

(***************************************************************************)
(* The analyze and generate endpoints: what the cache holds.               *)
(***************************************************************************)
\* The fields of an AnalysisResult (models.py:29-38).
AnalysisFields ==
    {"repo_meta", "languages", "file_tree_summary", "detected_stack",
     "package_manifests", "hints", "cached_at"}

\* The entry under key k is the complete result of the run recorded for its
\* slot: a run whose metadata and tree answers were good, built from them.
EntrySound(k) ==
    \E slot \in DOMAIN hist.stores :
       LET h == hist.stores[slot]
           a == cache[k].result
       IN /\ k = Md5Hex(slot)
          /\ a = h.result
          /\ DOMAIN a = AnalysisFields
          /\ ~MetaFailed(h.meta)
          /\ TreeSucceeded(h.tree)
          /\ a.repo_meta.name = h.meta.json[1].name[1]
          /\ a.repo_meta.default_branch = BranchOfAnswer(h.meta)
          /\ a.file_tree_summary
                = analyze_file_tree(GetOr(h.tree.json[1].tree, <<>>))
          /\ a.cached_at = h.at
          /\ cache[k].expiry_time = h.at + ttl

\* The request has ended in an error.
EndedInError == pc = "done" /\ outcome # None /\ outcome[1].status # 200

CacheSound ==
    /\ \A k \in DOMAIN cache : EntrySound(k)
    /\ EndedInError => cache = req.cache0

\* The cache changes in two ways only: the lookup that opens a request
\* removes the expired entry of that request's key, and an analyze request
\* that ends with a fresh analysis stores it.
CacheSteps ==
    cache' # cache =>
        \/ /\ req' # req
           /\ req'.repo_url # None
           /\ \E k \in DOMAIN cache :
                 /\ k = generate_key(req'.repo_url[1].chars)
                 /\ now > cache[k].expiry_time
                 /\ cache' = MapDel(cache, {k})
        \/ /\ req' = req
           /\ req.endpoint = "analyze"
           /\ outcome = None
           /\ outcome' # None
           /\ outcome'[1].status = 200
           /\ DOMAIN cache' = DOMAIN cache \cup {CacheKey}
           /\ \A k \in DOMAIN cache \ {CacheKey} : cache'[k] = cache[k]

\* C21: over any sequence of analyze and generate requests every cache entry
\* is a complete AnalysisResult of a run whose metadata and tree fetches
\* succeeded, and a request that ends in an error leaves the cached results
\* as they were but for the eviction of its own expired entry.
C21_CacheInvariant == []CacheSound /\ [][CacheSteps]_vars

\* A generation failed and the analysis it read is still cached.
C21_Witness ==
    /\ req.endpoint = "generate"
    /\ EndedInError
    /\ outcome[1].code = "GENERATION_ERROR"
    /\ cache # EmptyMap

\* An analyze request evicted its expired entry and then failed.
C21_WitnessEvicted ==
    /\ req.endpoint = "analyze"
    /\ EndedInError
    /\ Len(calls) >= 3
    /\ req.memo # None
    /\ req.started > req.memo[1].at + ttl
    /\ cache = EmptyMap

(***************************************************************************)
(* analyzer.py: detect_tech_stack and suggest_setup_steps on their own.    *)
(***************************************************************************)
MaxStackTree == 2

StackPool ==
    {Entry(Chars("src/App.py"), "blob"),
     Entry(Chars("app.py"), "blob"),
     Entry(Chars("REACT/x.js"), "blob"),
     Entry(Chars("vue-react.js"), "blob"),
     Entry(Chars("PgMongo.sql"), "blob"),
     Entry(Chars("docs.md"), "blob"),
     Entry(Chars("flask"), "tree"),
     Entry(Chars("Flask/x.py"), "blob"),
     Entry(Chars("DJANGO"), "blob"),
     Entry(Chars("Express.JS"), "blob"),
     Entry(Chars("Redis/Angular.ts"), "blob"),
     Entry(Chars("postgres.sql"), "blob"),
     Entry(F_requirements_txt, "blob")}

StackLanguages ==
    {<<>>, <<<<"Python", Percentage(1, 1)>>>>}

StackInputs ==
    {[op |-> "detect_tech_stack", tree |-> t, languages |-> l] :
        t \in SeqsUpTo(StackPool, MaxStackTree), l \in StackLanguages}

\* analyzer.py:326-329: the stack of a tree, its manifests identified first.
DetectTechStack ==
    /\ fin.op = "detect_tech_stack"
    /\ fout = None
    /\ fout' = Some(detect_tech_stack(fin.tree, fin.languages,
                                      identify_package_manifests(fin.tree)))
    /\ UNCHANGED <<fin, urlVars, cacheVars, treeVars, appVars>>

\* The keywords of the fixed lists with the label each adds.
StackKeywords ==
    {<<P_react, "React">>, <<P_vue, "Vue.js">>, <<P_angular, "Angular">>,
     <<P_flask, "Flask">>, <<P_app_py, "Flask">>, <<P_django, "Django">>,
     <<P_express, "Express.js">>, <<P_postgres, "PostgreSQL">>,
     <<P_pg, "PostgreSQL">>, <<P_mongo, "MongoDB">>, <<P_redis, "Redis">>}

\* Some file of the tree has the keyword in its path, in any letter case.
InSomeFile(tree, kw) ==
    \E i \in DOMAIN tree :
       /\ tree[i].type = "blob"
       /\ \E j \in 1..(Len(tree[i].path) - Len(kw) + 1) :
             SameUpToCase(SubSeq(tree[i].path, j, j + Len(kw) - 1), kw)

\* The stack of a tree has been detected.
StackDetected == fin.op = "detect_tech_stack" /\ fout # None

\* A label of the fixed lists in the stack comes from a keyword in a file's
\* path or is the name of a language.
NoStrayLabel ==
    \A e \in StackKeywords :
       e[2] \in fout[1] =>
          \/ \E f \in StackKeywords : f[2] = e[2] /\ InSomeFile(fin.tree, f[1])
          \/ e[2] \in LanguageNames(fin.languages)

\* C23: a file path that holds a keyword of the fixed lists in any letter
\* case, 'app.py' included, adds the keyword's label; keywords are matched
\* one by one, so a path may add several labels.
C23_CaseInsensitive ==
    StackDetected =>
        \A e \in StackKeywords : InSomeFile(fin.tree, e[1]) => e[2] \in fout[1]

\* Every keyword but 'app.py' is matched in any letter case; 'app.py' is
\* matched as written.
C23_AllButAppPy ==
    StackDetected =>
        /\ \A e \in StackKeywords \ {<<P_app_py, "Flask">>} :
              InSomeFile(fin.tree, e[1]) => e[2] \in fout[1]
        /\ (\E p \in BlobPaths(fin.tree) : Contains(p, P_app_py))
              => "Flask" \in fout[1]
        /\ NoStrayLabel

\* 'src/App.py' alone: no Flask.
C23_AppPyMissed ==
    /\ StackDetected
    /\ fin.tree = <<Entry(Chars("src/App.py"), "blob")>>
    /\ "Flask" \notin fout[1]

\* One path added two labels.
C23_SeveralLabels ==
    /\ StackDetected
    /\ fin.tree = <<Entry(Chars("vue-react.js"), "blob")>>
    /\ fout[1] = {"React", "Vue.js"} \cup LanguageNames(fin.languages)

HintLanguages ==
    {<<>>,
     <<<<"Python", Percentage(3, 4)>>, <<"HTML", Percentage(1, 4)>>>>,
     <<<<"HTML", Percentage(1, 4)>>, <<"Python", Percentage(3, 4)>>>>,
     <<<<"Go", Percentage(1, 2)>>, <<"Rust", Percentage(1, 2)>>>>}

HintInputs ==
    {[op |-> "suggest_setup_steps", manifests |-> m, languages |-> l] :
        m \in SUBSET ManifestNames, l \in HintLanguages}

\* analyzer.py:335
SuggestSetupSteps ==
    /\ fin.op = "suggest_setup_steps"
    /\ fout = None
    /\ fout' = Some(suggest_setup_steps(fin.manifests, fin.languages))
    /\ UNCHANGED <<fin, urlVars, cacheVars, treeVars, appVars>>

StackInit ==
    /\ fin \in StackInputs \cup HintInputs
    /\ fout = None
    /\ CacheIdle /\ UrlIdle /\ TreeIdle /\ AppIdle

StackNext == DetectTechStack \/ SuggestSetupSteps

SpecStack == StackInit /\ [][StackNext]_vars

(***************************************************************************)
(* analyze_file_tree: which top-level segments carry the separator.        *)
(***************************************************************************)
\* The characters of a path before its first '/'.
FirstSegment(path) ==
    IF \E i \in DOMAIN path : path[i] = "/"
    THEN Take(path, (CHOOSE i \in DOMAIN path :
                        path[i] = "/" /\ \A j \in 1..(i - 1) : path[j] # "/") - 1)
    ELSE path

\* The top-level directories of a tree: the root entries of kind tree and
\* the first segments of the deeper paths.
TopDirs(tree) ==
    {FirstSegment(tree[i].path) :
        i \in {j \in DOMAIN tree :
                 \/ tree[j].type = "tree" /\ FirstSegment(tree[j].path) = tree[j].path
                 \/ FirstSegment(tree[j].path) # tree[j].path}}

\* The root-level files of a tree.
RootFiles(tree) ==
    {tree[i].path :
        i \in {j \in DOMAIN tree :
                 tree[j].type = "blob" /\ FirstSegment(tree[j].path) = tree[j].path}}

\* A summary has been made of a tree whose top level fits the limit.
SummarisedWhole ==
    /\ summary # None
    /\ Cardinality(top_level(file_tree)) <= TopLevelLimit

\* C24: a segment of top_level_structure ends in the separator exactly when
\* it is a directory: each top-level directory, listed as a root entry or
\* only met as the prefix of a deeper path, appears once, suffixed, and a
\* segment without the suffix is a root-level file.
C24_SuffixIffDirectory ==
    SummarisedWhole =>
        LET top == summary[1].top_level_structure
        IN /\ \A d \in TopDirs(file_tree) :
                 /\ Cardinality({i \in DOMAIN top : top[i] \in {d, d \o <<"/">>}}) = 1
                 /\ \E i \in DOMAIN top : top[i] = d \o <<"/">>
           /\ \A i \in DOMAIN top :
                 IF top[i][Len(top[i])] = "/"
                 THEN Front(top[i]) \in TopDirs(file_tree)
                 ELSE top[i] \in RootFiles(file_tree)

\* What the suffix does tell: a suffixed segment has an entry below it, and
\* a segment without the suffix is a root entry, a file or a directory.
C24_SuffixIffDeeper ==
    SummarisedWhole =>
        LET top == summary[1].top_level_structure
        IN /\ \A i \in DOMAIN file_tree :
                 LET p == file_tree[i].path
                 IN \E k \in DOMAIN top :
                       top[k] = IF FirstSegment(p) = p THEN p
                                ELSE FirstSegment(p) \o <<"/">>
           /\ \A k \in DOMAIN top :
                 \E i \in DOMAIN file_tree :
                    LET p == file_tree[i].path
                    IN top[k] = IF FirstSegment(p) = p THEN p
                                ELSE FirstSegment(p) \o <<"/">>

\* The directory 'src' listed with a file below it appears twice, as 'src'
\* and as 'src/'.
C24_ListedTwice ==
    /\ summary # None
    /\ file_tree = <<Entry(Chars("src"), "tree"), Entry(Chars("src/a.py"), "blob")>>
    /\ summary[1].top_level_structure = <<Chars("src"), Chars("src/")>>

\* A directory met only as a prefix appears once, suffixed.
C24_PrefixOnly ==
    /\ summary # None
    /\ file_tree = <<Entry(Chars("a/b/c.txt"), "blob")>>
    /\ summary[1].top_level_structure = <<Chars("a/")>>

(***************************************************************************)
(* suggest_setup_steps against its reference definition.                   *)
(***************************************************************************)
\* The six manifests that bear a hint, in the order of analyzer.py:272-294,
\* with the label and the command of each.
HintTable ==
    <<<<F_package_json, "Node.js project detected", "Run: npm install">>,
      <<F_requirements_txt, "Python project detected",
        "Run: pip install -r requirements.txt">>,
      <<F_pyproject_toml, "Python Poetry project detected", "Run: poetry install">>,
      <<F_go_mod, "Go project detected", "Run: go mod download">>,
      <<F_Cargo_toml, "Rust project detected", "Run: cargo build">>,
      <<F_Gemfile, "Ruby project detected", "Run: bundle install">>>>

\* The places of HintTable whose manifest is present.
Present(manifests) == {i \in DOMAIN HintTable : HintTable[i][1] \in manifests}

\* The hints have been derived.
Suggested == fin.op = "suggest_setup_steps" /\ fout # None

\* C25: for each of the six hint-bearing manifests present, in the fixed
\* order, the hints hold its label and then its command and nothing else;
\* with none of the six and a non-empty language mapping they are the one
\* line naming a language of greatest percentage; with none and no language
\* they are empty.
C25_Hints ==
    Suggested =>
        LET present == Present(fin.manifests)
            Rank(i) == Cardinality({j \in present : j <= i})
            hints == fout[1]
        IN /\ present # {} =>
                 /\ Len(hints) = 2 * Cardinality(present)
                 /\ \A i \in present :
                       /\ hints[2 * Rank(i) - 1] = HintTable[i][2]
                       /\ hints[2 * Rank(i)] = HintTable[i][3]
           /\ (present = {} /\ fin.languages # <<>>) =>
                 /\ Len(hints) = 1
                 /\ \E i \in DOMAIN fin.languages :
                       /\ hints[1] = "Primary language: " \o fin.languages[i][1]
                       /\ \A j \in DOMAIN fin.languages :
                             ~PctLess(fin.languages[i][2], fin.languages[j][2])
           /\ (present = {} /\ fin.languages = <<>>) => hints = <<>>

\* Only pom.xml is present and the languages are known: the fallback line.
C25_Witness ==
    /\ Suggested
    /\ fin.manifests = {F_pom_xml}
    /\ fin.languages # <<>>
    /\ fout[1] = <<"Primary language: Python">>

\* Three of the six are present beside others: six hints in the fixed order.
C25_WitnessThree ==
    /\ Suggested
    /\ fin.manifests = {F_Gemfile, F_package_json, F_go_mod, F_Pipfile}
    /\ fout[1] = <<"Node.js project detected", "Run: npm install",
                   "Go project detected", "Run: go mod download",
                   "Ruby project detected", "Run: bundle install">>

(***************************************************************************)
(* The analyze endpoint: a 403 on the metadata call.                       *)
(***************************************************************************)
\* The request failed on a 403 answer to its metadata call.
Failed403 ==
    /\ FailedIn("fetch_repo_metadata")
    /\ FailedResp.kind = "http"
    /\ FailedResp.status = 403

\* The answer speaks of the rate limit in its body.
HasRateMarker(resp) == Contains(StrLower(resp.text), KW_RATE_LIMIT)

\* The answer shows a quota used up: the marker, or no request remaining.
QuotaExhausted(resp) ==
    HasRateMarker(resp) \/ resp.remaining = Some(<<"0">>)

\* C26: a 403 is reported as rate-limited only when the answer shows a used
\* up quota (the marker in the body or a remaining-quota header of 0) and as
\* access forbidden, AUTH_REQUIRED at the endpoint, otherwise, a remaining
\* quota above 0 without the marker included.
C26_Forbidden403 ==
    Failed403 =>
        IF QuotaExhausted(FailedResp)
        THEN MetaKinds(outcome[1].message) = {"rate-limited"}
        ELSE /\ MetaKinds(outcome[1].message) = {"forbidden"}
             /\ outcome[1].code = "AUTH_REQUIRED"
             /\ outcome[1].status = 403

\* What the code does: rate-limited when the marker is in the body or the
\* remaining-quota header is present, whatever it says; access forbidden
\* when neither.
C26_HeaderPresence ==
    Failed403 =>
        IF HasRateMarker(FailedResp) \/ FailedResp.remaining # None
        THEN /\ MetaKinds(outcome[1].message) = {"rate-limited"}
             /\ outcome[1].code = "ANALYZER_ERROR"
             /\ outcome[1].status = 500
        ELSE /\ MetaKinds(outcome[1].message) = {"forbidden"}
             /\ outcome[1].code = "AUTH_REQUIRED"
             /\ outcome[1].status = 403

\* A 403 without the marker and with 57 requests remaining was reported as
\* rate-limited, under ANALYZER_ERROR.
C26_QuotaLeft ==
    /\ Failed403
    /\ ~HasRateMarker(FailedResp)
    /\ FailedResp.remaining = Some(<<"5", "7">>)
    /\ MetaKinds(outcome[1].message) = {"rate-limited"}
    /\ outcome[1].code = "ANALYZER_ERROR"

(***************************************************************************)
(* cache.py under two threads. The server handles requests in threads that *)
(* share cache_manager; a thread may be switched out between any two       *)
(* statements of get_cached_analysis and cleanup_expired, and between two  *)
(* steps of the sweep's scan. Here pc, frame, outcome and req are kept per *)
(* thread: the place in the operation, its local variables, what the       *)
(* operation returned or raised, and the operations started. hist counts   *)
(* the deletions of each key and notes a deletion of an entry that had not *)
(* expired.                                                                *)
(***************************************************************************)
Threads == {1, 2}
MaxOps == 2
MaxRaceClock == 3

RaceLocators == {L_ab, L_ac}
RaceKeys == {generate_key(L) : L \in RaceLocators}

NoLocals == [op |-> "none"]

\* The caches left by stores at time 0.
RaceCaches ==
    {[k \in {generate_key(L) : L \in S} |-> [result |-> 1, expiry_time |-> ttl]] :
        S \in SUBSET RaceLocators}

RaceInit ==
    /\ cache \in RaceCaches
    /\ now = 0
    /\ last = NoOp
    /\ hist = [deleted |-> [k \in RaceKeys |-> 0], live_removed |-> FALSE]
    /\ pc = [t \in Threads |-> "idle"]
    /\ frame = [t \in Threads |-> NoLocals]
    /\ outcome = [t \in Threads |-> None]
    /\ req = [t \in Threads |-> 0]
    /\ calls = <<>>
    /\ UrlIdle /\ TreeIdle /\ FactIdle

\* The thread is between two operations and may start another.
MayStart(t) == pc[t] = "idle" /\ req[t] < MaxOps

\* What a deletion of key k does to the history.
Deleted(k) ==
    [deleted |-> [hist.deleted EXCEPT ![k] = @ + 1],
     live_removed |-> hist.live_removed \/ now <= cache[k].expiry_time]

\* The thread's operation ends with `out`.
Ends(t, out) ==
    /\ pc' = [pc EXCEPT ![t] = "idle"]
    /\ outcome' = [outcome EXCEPT ![t] = Some(out)]

\* cache.py:43-46: the key is derived and looked for.
LookupTest(t) ==
    /\ MayStart(t)
    /\ \E L \in RaceLocators :
          /\ req' = [req EXCEPT ![t] = @ + 1]
          /\ frame' = [frame EXCEPT ![t] = [op |-> "get_cached_analysis",
                                            key |-> generate_key(L)]]
          /\ IF generate_key(L) \notin DOMAIN cache
             THEN Ends(t, Ok(None))
             ELSE /\ pc' = [pc EXCEPT ![t] = "read"]
                  /\ outcome' = [outcome EXCEPT ![t] = None]
    /\ UNCHANGED <<cache, now, last, hist, calls, urlVars, treeVars, factVars>>

\* cache.py:48: result, expiry_time = self.cache[key]
LookupRead(t) ==
    /\ pc[t] = "read"
    /\ IF frame[t].key \in DOMAIN cache
       THEN /\ frame' = [frame EXCEPT ![t] =
                           [op |-> "get_cached_analysis", key |-> frame[t].key,
                            result |-> cache[frame[t].key].result,
                            expiry_time |-> cache[frame[t].key].expiry_time]]
            /\ pc' = [pc EXCEPT ![t] = "check"]
            /\ outcome' = outcome
       ELSE /\ frame' = frame
            /\ Ends(t, Raised("KeyError", <<>>))
    /\ UNCHANGED <<cache, now, last, hist, req, calls, urlVars, treeVars, factVars>>

\* cache.py:51 and 56: the expiry test, and the return of a hit.
LookupCheck(t) ==
    /\ pc[t] = "check"
    /\ IF now > frame[t].expiry_time
       THEN pc' = [pc EXCEPT ![t] = "delete"] /\ outcome' = outcome
       ELSE Ends(t, Ok(Some(frame[t].result)))
    /\ UNCHANGED <<cache, now, last, hist, frame, req, calls, urlVars, treeVars,
                   factVars>>

\* cache.py:53-54: del self.cache[key]; return None
LookupDelete(t) ==
    /\ pc[t] = "delete"
    /\ IF frame[t].key \in DOMAIN cache
       THEN /\ cache' = MapDel(cache, {frame[t].key})
            /\ hist' = Deleted(frame[t].key)
            /\ Ends(t, Ok(None))
       ELSE /\ cache' = cache
            /\ hist' = hist
            /\ Ends(t, Raised("KeyError", <<>>))
    /\ UNCHANGED <<now, last, frame, req, calls, urlVars, treeVars, factVars>>

\* cache.py:66-68: one assignment to the mapping.
StoreOnce(t) ==
    /\ MayStart(t)
    /\ \E L \in RaceLocators :
          /\ cache' = cache_analysis(cache, L, 2, now)
          /\ frame' = [frame EXCEPT ![t] = [op |-> "cache_analysis",
                                            key |-> generate_key(L)]]
    /\ req' = [req EXCEPT ![t] = @ + 1]
    /\ Ends(t, Ok(None))
    /\ UNCHANGED <<now, last, hist, calls, urlVars, treeVars, factVars>>

\* cache.py:92-93: the time is read and the iteration over the mapping
\* begins; the iterator remembers the mapping's size.
SweepBegin(t) ==
    /\ MayStart(t)
    /\ req' = [req EXCEPT ![t] = @ + 1]
    /\ frame' = [frame EXCEPT ![t] =
                   [op |-> "cleanup_expired", t0 |-> now,
                    size |-> Cardinality(DOMAIN cache), todo |-> DOMAIN cache,
                    found |-> {}, count |-> 0]]
    /\ pc' = [pc EXCEPT ![t] = "scan"]
    /\ outcome' = [outcome EXCEPT ![t] = None]
    /\ UNCHANGED <<cache, now, last, hist, calls, urlVars, treeVars, factVars>>

\* cache.py:93-96: one step of the iteration. A dict iterator raises
\* RuntimeError when the mapping's size is not the one it remembers.
SweepScan(t) ==
    /\ pc[t] = "scan"
    /\ IF Cardinality(DOMAIN cache) # frame[t].size
       THEN /\ frame' = frame
            /\ Ends(t, Raised("RuntimeError", <<>>))
       ELSE IF frame[t].todo \cap DOMAIN cache = {}
       THEN /\ frame' = [frame EXCEPT ![t].todo = {},
                                      ![t].count = Cardinality(frame[t].found)]
            /\ pc' = [pc EXCEPT ![t] = "sweep"]
            /\ outcome' = outcome
       ELSE \E k \in frame[t].todo \cap DOMAIN cache :
               /\ frame' = [frame EXCEPT
                              ![t].todo = @ \ {k},
                              ![t].found = IF frame[t].t0 > cache[k].expiry_time
                                           THEN @ \cup {k} ELSE @]
               /\ pc' = pc
               /\ outcome' = outcome
    /\ UNCHANGED <<cache, now, last, hist, req, calls, urlVars, treeVars, factVars>>

\* cache.py:98-101: del self.cache[key] for the next collected key, or the
\* return of their number.
SweepDelete(t) ==
    /\ pc[t] = "sweep"
    /\ IF frame[t].found = {}
       THEN /\ cache' = cache /\ hist' = hist /\ frame' = frame
            /\ Ends(t, Ok(frame[t].count))
       ELSE \E k \in frame[t].found :
               IF k \in DOMAIN cache
               THEN /\ cache' = MapDel(cache, {k})
                    /\ hist' = Deleted(k)
                    /\ frame' = [frame EXCEPT ![t].found = @ \ {k}]
                    /\ pc' = pc
                    /\ outcome' = outcome
               ELSE /\ cache' = cache /\ hist' = hist /\ frame' = frame
                    /\ Ends(t, Raised("KeyError", <<>>))
    /\ UNCHANGED <<now, last, req, calls, urlVars, treeVars, factVars>>

\* datetime.now() moves on.
RaceTick ==
    /\ now < MaxRaceClock
    /\ now' = now + 1
    /\ UNCHANGED <<cache, last, hist, appVars, urlVars, treeVars, factVars>>

RaceNext ==
    \/ \E t \in Threads :
          \/ LookupTest(t) \/ LookupRead(t) \/ LookupCheck(t) \/ LookupDelete(t)
          \/ StoreOnce(t)
          \/ SweepBegin(t) \/ SweepScan(t) \/ SweepDelete(t)
    \/ RaceTick

SpecRace == RaceInit /\ [][RaceNext]_vars

\* C27: whatever the interleaving of two threads, no cache operation fails:
\* every operation that has ended returned (a lookup a hit or a miss, a
\* sweep its count), and only expired entries are deleted, each by one
\* deletion.
C27_NoOperationFails ==
    /\ \A t \in Threads : outcome[t] # None => outcome[t][1].ok
    /\ ~hist.live_removed

\* A lookup raised KeyError: the entry it had found was deleted by the
\* other thread before it read or deleted it.
C27_LookupRaised ==
    \E t \in Threads :
       /\ frame[t].op = "get_cached_analysis"
       /\ outcome[t] = Some(Raised("KeyError", <<>>))

\* A sweep raised RuntimeError: the mapping changed size during its scan.
C27_ScanRaised ==
    \E t \in Threads :
       /\ frame[t].op = "cleanup_expired"
       /\ outcome[t] = Some(Raised("RuntimeError", <<>>))

\* A sweep raised KeyError on a key the other thread had deleted.
C27_SweepRaised ==
    \E t \in Threads :
       /\ frame[t].op = "cleanup_expired"
       /\ outcome[t] = Some(Raised("KeyError", <<>>))

\* A sweep deleted an entry stored again after the sweep had found its
\* predecessor expired.
C27_FreshDeleted == hist.live_removed

\* With one thread at a time nothing fails.
C27_Sequential ==
    (\A t \in Threads : t # 1 => req[t] = 0) => C27_NoOperationFails

(***************************************************************************)
(* The endpoints: whose credentials a cached result was fetched with.      *)
(***************************************************************************)
\* The request was answered from the cache: an analyze request with the
\* cached analysis, a generate request with a text made from it.
ServedFromCache ==
    /\ pc = "done"
    /\ outcome # None
    /\ outcome[1].status = 200
    /\ req.memo # None
    /\ \/ /\ req.endpoint = "analyze"
          /\ CallNames = <<"validate_github_url", "get_cached_analysis">>
          /\ outcome[1].body = to_dict(req.memo[1].result)
       \/ /\ req.endpoint = "generate"
          /\ CallNames = <<"get_cached_analysis", "generate_readme">>
          /\ outcome[1].markdown_of = req.memo[1].result

\* C28: a result that was fetched with a token is served from the cache
\* only to a request that supplies the same token.
C28_TokenIsolation ==
    (ServedFromCache /\ req.memo[1].token # None)
        => req.token = req.memo[1].token

\* The lookup of both endpoints is by locator alone: whatever token fetched
\* the entry and whatever token the request brings, a live entry is served.
C28_ServedWhateverToken ==
    /\ (pc = "done" /\ req.memo # None /\ req.started <= req.memo[1].at + ttl
           /\ req.repo_url # None /\ req.repo_url[1].isstr
           /\ (req.endpoint = "analyze" => req.valid))
          => IF req.endpoint = "analyze" THEN ServedFromCache
             ELSE /\ Issued(2, "generate_readme")
                  /\ calls[2].arg = req.memo[1].result
    /\ ServedFromCache => req.started <= req.memo[1].at + ttl

\* An analysis fetched with a token was returned to an analyze request
\* without one.
C28_LeakToAnalyze ==
    /\ ServedFromCache
    /\ req.endpoint = "analyze"
    /\ req.memo[1].token # None
    /\ req.token = None

\* A text was generated, for a request without any token, from an analysis
\* fetched with one.
C28_LeakToGenerate ==
    /\ ServedFromCache
    /\ req.endpoint = "generate"
    /\ req.memo[1].token # None

(***************************************************************************)
(* The endpoints: which locators share a cache entry.                      *)
(***************************************************************************)
\* The request's locator is a string that validates.
ValidLocator ==
    /\ req.repo_url # None
    /\ req.repo_url[1].isstr
    /\ validate_github_url(req.repo_url[1]).ok

\* The request found its analysis in the cache.
CacheHit ==
    \/ /\ req.endpoint = "analyze"
       /\ CallNames = <<"validate_github_url", "get_cached_analysis">>
       /\ outcome # None /\ outcome[1].status = 200
    \/ /\ req.endpoint = "generate"
       /\ Issued(2, "generate_readme")

\* The analyses stored by earlier requests under another string that
\* validates to the repository of this request, still within their TTL when
\* this request began.
StoredForSameRepository ==
    {slot \in DOMAIN hist.stores :
        /\ slot # Slot(req.repo_url[1].chars)
        /\ validate_github_url(Str(hist.stores[slot].locator))
              = validate_github_url(req.repo_url[1])
        /\ req.started <= hist.stores[slot].at + ttl}

\* C29: the cache is keyed by repository: after a successful analyze of one
\* locator, an analyze or generate request within the TTL with another
\* locator that validates to the same (owner, name) pair is a cache hit.
C29_KeyedByRepository ==
    (pc = "done" /\ ValidLocator /\ StoredForSameRepository # {}) => CacheHit

\* The cache is keyed by the locator string: a hit needs an entry stored
\* under the same string up to letter case.
C29_KeyedByString ==
    (pc = "done" /\ ValidLocator /\ CacheHit) =>
        /\ req.memo # None
        /\ SameUpToCase(req.memo[1].locator, req.repo_url[1].chars)
        /\ req.started <= req.memo[1].at + ttl

\* 'https://github.com/a/b' was analyzed from scratch while the analysis of
\* 'github.com/a/b' was live in the cache.
C29_MissOtherSpelling ==
    /\ pc = "done"
    /\ req.endpoint = "analyze"
    /\ req.repo_url = Some(Str(L_https_ab))
    /\ Slot(L_ab) \in StoredForSameRepository
    /\ Issued(3, "fetch_repo_metadata")

\* A generate request for 'https://github.com/a/b' found no analysis while
\* that of 'github.com/a/b' was live.
C29_GenerateNotFound ==
    /\ pc = "done"
    /\ req.endpoint = "generate"
    /\ req.repo_url = Some(Str(L_https_ab))
    /\ Slot(L_ab) \in StoredForSameRepository
    /\ outcome[1].status = 404
    /\ outcome[1].code = "ANALYSIS_NOT_FOUND"

(***************************************************************************)
(* The parser: what a successful parse returns.                            *)
(***************************************************************************)
\* C30: whenever validate_github_url succeeds, the owner and the repository
\* name it returns are both non-empty and made only of the characters of
\* their grammar segment, a repository segment that is exactly '.git'
\* included.
C30_NonEmptyParts ==
    (vres # <<>> /\ vres[1].ok) =>
        /\ vres[1].owner # <<>>
        /\ Range(vres[1].owner) \subseteq OwnerClass
        /\ vres[1].repo # <<>>
        /\ Range(vres[1].repo) \subseteq RepoClass

\* What does hold: the owner is non-empty, both parts keep to their
\* character classes, and the name is empty exactly when the repository
\* segment is '.git' alone.
C30_EmptyIffDotGit ==
    (vres # <<>> /\ vres[1].ok) =>
        /\ vres[1].owner # <<>>
        /\ Range(vres[1].owner) \subseteq OwnerClass
        /\ Range(vres[1].repo) \subseteq RepoClass
        /\ vres[1].repo = <<>>
             <=> EndsWith(StripAllSlashes(url.chars), <<"/">> \o DOT_GIT)

\* 'github.com/a/.git' was parsed to the owner 'a' and an empty name.
C30_EmptyName ==
    /\ url = Str(GITHUB_HOST \o <<"/", "a", "/">> \o DOT_GIT)
    /\ vres = <<Parsed(<<"a">>, <<>>)>>

=============================================================================
